---- MODULE Spec2Model ----
(***************************************************************************)
(* rentFalcon: the multi-source scraper manager (scrapers/scraper_manager) *)
(* and the adapter contract (scrapers/base_scraper and its subclasses).    *)
(*                                                                         *)
(* Texts (titles, locations, urls, signatures) are sequences of one-       *)
(* character strings, so that lower(), strip(), the f-string signature and *)
(* difflib's SequenceMatcher are computed, not assumed.  An absent text    *)
(* (None or "", which every use in the manager treats alike through        *)
(* `get(...) or ""` and truthiness) is the empty sequence.  Prices are the *)
(* whole-dollar floats that _extract_price produces; its None is NoPrice.  *)
(***************************************************************************)
EXTENDS Integers, Sequences, FiniteSets, TLC

NoPrice == -1      \* the None that _extract_price returns for a missing price

(***************************************************************************)
(* Bounds of the model.                                                    *)
(***************************************************************************)
MaxLen == 3        \* longest listing sequence handed to _deduplicate_listings
MaxCalls == 2      \* search_all calls on one manager instance
MaxRaw == 2        \* raw listings in one payload of Envs

VARIABLES
  listings_in,       \* the listing sequence handed to the dedup functions
  unique_out,        \* result of _deduplicate_listings(listings_in)
  self_union_out,    \* result of _deduplicate_listings(listings_in + listings_in)
  similar_out        \* result of _listings_similar(listings_in[1], listings_in[2])

dedupVars == <<listings_in, unique_out, self_union_out, similar_out>>

VARIABLES
  min_price,         \* the min_price argument (NoPrice when None)
  max_price,         \* the max_price argument (NoPrice when None)
  filter_out,        \* result of filter_results(listings_in, min_price, max_price)
  adapter,           \* which adapter class search() is called on
  env,               \* what the outside world does to this search
  search_out         \* result of adapter.search(location, min_price, max_price)

adapterVars == <<min_price, max_price, filter_out, adapter, env, search_out>>

VARIABLES
  enabled_scrapers,  \* self.enabled_scrapers, a list of registry keys
  max_workers,       \* self.max_workers
  stats,             \* self.stats without by_source and execution_time
  by_source,         \* the dict self.stats["by_source"] refers to
  pc,                \* where the thread calling search_all is
  calls,             \* search_all calls started on this manager
  task,              \* per enabled adapter, the future of its _run_scraper, with
                     \* how often it was started and its outcome folded
  all_listings,      \* local all_listings of the running call
  errors,            \* local errors of the running call
  finished,          \* as_completed: futures about to be yielded, in order
  pending,           \* as_completed: futures not yet handed to the loop
  waiter,            \* as_completed: waiter.finished_futures
  expired,           \* the deadline end_time of as_completed has passed
  raised_exc,        \* the exception the last call raised, "" if none
  response,          \* the value the last completed call returned
  location,          \* the location argument the callers pass to search_all
  self_config        \* self.config, as far as __init__ reads it

VARIABLES
  retries,           \* Retry.total left to the running session.get
  attempts,          \* requests the running session.get has sent
  statuses,          \* what each of these requests met, in order
  fetch_out          \* how session.get ended

fetchVars == <<retries, attempts, statuses, fetch_out>>

VARIABLES
  clock,             \* time.time(), in units of the default delay
  instances          \* per source: the adapter instance of the running task, its
                     \* last_request_time, and the requests the source has seen

paceVars == <<clock, instances>>

VARIABLES
  url_out,           \* how build_search_url(location) of the adapter ended
  raw_in,            \* the raw listing standardize_listing is applied to
  standardized,      \* what standardize_listing(raw_in) returned
  store,             \* the documents of listings_collection
  upsert_out         \* the last call of an upsert function and how it ended

storeVars == <<store, upsert_out>>
sideVars == <<url_out, raw_in, standardized, storeVars>>

\* what the adapter instances created by the manager's tasks hold, and what
\* lies beside the manager: the target of a search and the document store
instanceVars == <<fetchVars, paceVars, sideVars>>

managerOwn ==
  <<enabled_scrapers, max_workers, stats, by_source, pc, calls, task,
    all_listings, errors, finished, pending, waiter, expired, raised_exc,
    response, location, self_config>>

managerVars == <<managerOwn, instanceVars>>
vars == <<dedupVars, adapterVars, managerVars>>

(***************************************************************************)
(* Text helpers: str.lower(), str.strip(), str(float), str(int).           *)
(***************************************************************************)
Min(a, b) == IF a <= b THEN a ELSE b
Max(a, b) == IF a >= b THEN a ELSE b
Abs(a) == IF a < 0 THEN 0 - a ELSE a

LowerChar(c) ==
  CASE c = "A" -> "a" [] c = "B" -> "b" [] c = "C" -> "c" [] c = "D" -> "d"
    [] c = "N" -> "n" [] c = "O" -> "o" [] OTHER -> c

RECURSIVE Lower(_)
Lower(t) == IF t = <<>> THEN <<>> ELSE <<LowerChar(Head(t))>> \o Lower(Tail(t))

IsSpace(c) == c = " "

RECURSIVE LStrip(_)
LStrip(t) == IF t # <<>> /\ IsSpace(Head(t)) THEN LStrip(Tail(t)) ELSE t

RECURSIVE RStrip(_)
RStrip(t) ==
  IF t # <<>> /\ IsSpace(t[Len(t)]) THEN RStrip(SubSeq(t, 1, Len(t) - 1)) ELSE t

Strip(t) == RStrip(LStrip(t))

DigitChar(d) ==
  CASE d = 0 -> "0" [] d = 1 -> "1" [] d = 2 -> "2" [] d = 3 -> "3" [] d = 4 -> "4"
    [] d = 5 -> "5" [] d = 6 -> "6" [] d = 7 -> "7" [] d = 8 -> "8" [] d = 9 -> "9"

RECURSIVE IntStr(_)
IntStr(n) == IF n < 10 THEN <<DigitChar(n)>> ELSE IntStr(n \div 10) \o <<DigitChar(n % 10)>>

\* how an f-string renders a listing's price: None, or a whole float "1000.0"
PriceStr(p) == IF p = NoPrice THEN <<"N", "o", "n", "e">> ELSE IntStr(p) \o <<".", "0">>

(***************************************************************************)
(* difflib.SequenceMatcher(None, a, b).ratio() without junk (autojunk only *)
(* applies to sequences of 200 or more elements).  The ratio 2*M/T is kept *)
(* as the pair <<2*M, T>> and compared exactly.                            *)
(***************************************************************************)
RECURSIVE MatchLen(_, _, _, _, _, _)
\* length of the common run starting at a[i], b[j], inside a[..ahi], b[..bhi]
MatchLen(a, i, ahi, b, j, bhi) ==
  IF i > ahi \/ j > bhi \/ a[i] # b[j] THEN 0
  ELSE 1 + MatchLen(a, i + 1, ahi, b, j + 1, bhi)

\* find_longest_match on a[alo..ahi], b[blo..bhi] (1-based, inclusive, both
\* non-empty): the longest block, earliest in a, then earliest in b
FindLongestMatch(a, alo, ahi, b, blo, bhi) ==
  LET ml == [p \in (alo..ahi) \X (blo..bhi) |-> MatchLen(a, p[1], ahi, b, p[2], bhi)]
      best == CHOOSE p \in DOMAIN ml :
                \A q \in DOMAIN ml :
                   \/ ml[q] < ml[p]
                   \/ ml[q] = ml[p] /\ (p[1] < q[1] \/ (p[1] = q[1] /\ p[2] <= q[2]))
  IN  [i |-> best[1], j |-> best[2], k |-> ml[best]]

RECURSIVE Matches(_, _, _, _, _, _)
\* sum of the sizes of get_matching_blocks() on a[alo..ahi], b[blo..bhi]
Matches(a, alo, ahi, b, blo, bhi) ==
  IF alo > ahi \/ blo > bhi THEN 0
  ELSE LET m == FindLongestMatch(a, alo, ahi, b, blo, bhi)
       IN  IF m.k = 0 THEN 0
           ELSE m.k + Matches(a, alo, m.i - 1, b, blo, m.j - 1)
                    + Matches(a, m.i + m.k, ahi, b, m.j + m.k, bhi)

\* _text_similarity: <<numerator, denominator>> of the ratio
TextSimilarity(text1, text2) ==
  LET T == Len(text1) + Len(text2)
  IN  IF T = 0 THEN <<1, 1>>
      ELSE <<2 * Matches(text1, 1, Len(text1), text2, 1, Len(text2)), T>>

\* ratio >= pct / 100
RatioAtLeast(r, pct) == r[1] * 100 >= pct * r[2]

(***************************************************************************)
(* Manager configuration (ScraperManager.__init__).                        *)
(***************************************************************************)
similarity_threshold == 85      \* per cent: config default 0.85
TitleFloor == 70                \* per cent: the literal 0.7 of _listings_similar
PricePct == 5                   \* per cent: the literal 0.05
PriceCap == 50                  \* dollars: the literal 50

\* Python truthiness: None and "" are falsy texts, None and 0 falsy prices
TruthyText(t) == t # <<>>
TruthyPrice(p) == p # NoPrice /\ p # 0

\* (listing.get(field) or "")
OrEmpty(t) == IF TruthyText(t) THEN t ELSE <<>>

(***************************************************************************)
(* _create_listing_signature                                               *)
(***************************************************************************)
CreateListingSignature(listing) ==
  IF TruthyText(listing.url) THEN listing.url
  ELSE Strip(Lower(OrEmpty(listing.title))) \o <<"|">> \o PriceStr(listing.price)
         \o <<"|">> \o Strip(Lower(OrEmpty(listing.location)))

(***************************************************************************)
(* _listings_similar.  The result is [raised, value]: line 396 reads       *)
(* title_similarity, which is bound only when both titles are non-empty,   *)
(* so with both locations present and a title absent the call raises       *)
(* UnboundLocalError.                                                      *)
(***************************************************************************)
PriceTooDifferent(price1, price2) ==
  /\ TruthyPrice(price1) /\ TruthyPrice(price2)
  /\ Abs(price1 - price2) * 100 > Min(Max(price1, price2) * PricePct, PriceCap * 100)

\* _listings_similar without the url rule of lines 363-364
ListingsSimilarNoUrlRule(listing1, listing2) ==
  IF PriceTooDifferent(listing1.price, listing2.price)
  THEN [raised |-> FALSE, value |-> FALSE]
  ELSE
    LET title1 == Lower(OrEmpty(listing1.title))
        title2 == Lower(OrEmpty(listing2.title))
        location1 == Lower(OrEmpty(listing1.location))
        location2 == Lower(OrEmpty(listing2.location))
        titles == title1 # <<>> /\ title2 # <<>>
        title_similarity == TextSimilarity(title1, title2)
        location_similarity == TextSimilarity(location1, location2)
    IN  IF titles /\ RatioAtLeast(title_similarity, similarity_threshold)
        THEN [raised |-> FALSE, value |-> TRUE]
        ELSE IF location1 # <<>> /\ location2 # <<>>
        THEN IF ~titles
             THEN [raised |-> TRUE, value |-> FALSE]
             ELSE [raised |-> FALSE,
                   value |-> /\ RatioAtLeast(title_similarity, TitleFloor)
                             /\ RatioAtLeast(location_similarity, similarity_threshold)]
        ELSE [raised |-> FALSE, value |-> FALSE]

\* _listings_similar with a location rule that ignores the titles
ListingsSimilarNoTitleFloor(listing1, listing2) ==
  IF TruthyText(listing1.url) /\ TruthyText(listing2.url)
  THEN [raised |-> FALSE, value |-> listing1.url = listing2.url]
  ELSE IF PriceTooDifferent(listing1.price, listing2.price)
  THEN [raised |-> FALSE, value |-> FALSE]
  ELSE
    LET title1 == Lower(OrEmpty(listing1.title))
        title2 == Lower(OrEmpty(listing2.title))
        location1 == Lower(OrEmpty(listing1.location))
        location2 == Lower(OrEmpty(listing2.location))
        titles == title1 # <<>> /\ title2 # <<>>
        title_similarity == TextSimilarity(title1, title2)
        location_similarity == TextSimilarity(location1, location2)
    IN  IF titles /\ RatioAtLeast(title_similarity, similarity_threshold)
        THEN [raised |-> FALSE, value |-> TRUE]
        ELSE IF location1 # <<>> /\ location2 # <<>>
        THEN IF ~titles
             THEN [raised |-> TRUE, value |-> FALSE]
             ELSE [raised |-> FALSE,
                   value |-> RatioAtLeast(location_similarity, similarity_threshold)]
        ELSE [raised |-> FALSE, value |-> FALSE]

ListingsSimilar(listing1, listing2) ==
  IF TruthyText(listing1.url) /\ TruthyText(listing2.url)
  THEN [raised |-> FALSE, value |-> listing1.url = listing2.url]
  ELSE IF PriceTooDifferent(listing1.price, listing2.price)
  THEN [raised |-> FALSE, value |-> FALSE]
  ELSE
    LET title1 == Lower(OrEmpty(listing1.title))
        title2 == Lower(OrEmpty(listing2.title))
        location1 == Lower(OrEmpty(listing1.location))
        location2 == Lower(OrEmpty(listing2.location))
        titles == title1 # <<>> /\ title2 # <<>>
        title_similarity == TextSimilarity(title1, title2)
        location_similarity == TextSimilarity(location1, location2)
    IN  IF titles /\ RatioAtLeast(title_similarity, similarity_threshold)
        THEN [raised |-> FALSE, value |-> TRUE]
        ELSE IF location1 # <<>> /\ location2 # <<>>
        THEN IF ~titles
             THEN [raised |-> TRUE, value |-> FALSE]
             ELSE [raised |-> FALSE,
                   value |-> /\ RatioAtLeast(title_similarity, TitleFloor)
                             /\ RatioAtLeast(location_similarity, similarity_threshold)]
        ELSE [raised |-> FALSE, value |-> FALSE]

(***************************************************************************)
(* _is_duplicate: the first existing listing that matches or raises        *)
(* decides.                                                                *)
(***************************************************************************)
RECURSIVE IsDuplicate(_, _)
IsDuplicate(listing, existing_listings) ==
  IF existing_listings = <<>> THEN [raised |-> FALSE, value |-> FALSE]
  ELSE LET r == ListingsSimilar(listing, Head(existing_listings))
       IN  IF r.raised \/ r.value THEN r
           ELSE IsDuplicate(listing, Tail(existing_listings))

(***************************************************************************)
(* _deduplicate_listings: the loop over the input, carrying unique_listings*)
(* and seen_signatures.  The result is [raised, listings].                 *)
(***************************************************************************)
RECURSIVE DedupLoopNoSeen(_, _, _)
\* the loop with `seen_signatures.add(signature)` left out
DedupLoopNoSeen(rest, unique_listings, seen_signatures) ==
  IF rest = <<>> THEN [raised |-> FALSE, listings |-> unique_listings]
  ELSE LET listing == Head(rest)
           d == IsDuplicate(listing, unique_listings)
       IN  IF d.raised THEN [raised |-> TRUE, listings |-> <<>>]
           ELSE IF d.value
           THEN DedupLoopNoSeen(Tail(rest), unique_listings, seen_signatures)
           ELSE DedupLoopNoSeen(Tail(rest), Append(unique_listings, listing),
                                seen_signatures)

RECURSIVE DedupLoopPrepend(_, _, _)
\* the loop with unique_listings.insert(0, listing) for the append
DedupLoopPrepend(rest, unique_listings, seen_signatures) ==
  IF rest = <<>> THEN [raised |-> FALSE, listings |-> unique_listings]
  ELSE LET listing == Head(rest)
           signature == CreateListingSignature(listing)
       IN  IF signature \in seen_signatures
           THEN DedupLoopPrepend(Tail(rest), unique_listings, seen_signatures)
           ELSE LET d == IsDuplicate(listing, unique_listings)
                IN  IF d.raised THEN [raised |-> TRUE, listings |-> <<>>]
                    ELSE IF d.value
                    THEN DedupLoopPrepend(Tail(rest), unique_listings, seen_signatures)
                    ELSE DedupLoopPrepend(Tail(rest), <<listing>> \o unique_listings,
                                   seen_signatures \cup {signature})

RECURSIVE DedupLoop(_, _, _)
DedupLoop(rest, unique_listings, seen_signatures) ==
  IF rest = <<>> THEN [raised |-> FALSE, listings |-> unique_listings]
  ELSE LET listing == Head(rest)
           signature == CreateListingSignature(listing)
       IN  IF signature \in seen_signatures
           THEN DedupLoop(Tail(rest), unique_listings, seen_signatures)
           ELSE LET d == IsDuplicate(listing, unique_listings)
                IN  IF d.raised THEN [raised |-> TRUE, listings |-> <<>>]
                    ELSE IF d.value
                    THEN DedupLoop(Tail(rest), unique_listings, seen_signatures)
                    ELSE DedupLoop(Tail(rest), Append(unique_listings, listing),
                                   seen_signatures \cup {signature})

DeduplicateListings(listings) == DedupLoop(listings, <<>>, {})

(***************************************************************************)
(* Canonical listings the functions are applied to.  Only the fields the   *)
(* manager reads are kept: url, title, price, location (and source).       *)
(***************************************************************************)
Listing(source, url, title, price, where) ==
  [source |-> source, url |-> url, title |-> title, price |-> price,
   location |-> where]

T_abcd == <<"a", "b", "c", "d">>
T_Abcd_ == <<"A", "b", "c", "d", " ">>
T_abcx == <<"a", "b", "c", "x">>
T_wxyz == <<"w", "x", "y", "z">>
T_long1 == <<"a", "b", "c", "d", "e", "f", "g", "h", "i", "j">>
T_long2 == <<"a", "b", "c", "d", "e", "f", "g", "h", "i", "z">>
T_aba == <<"a", "b", "a">>
T_babba == <<"b", "a", "b", "b", "a">>
L_on == <<"o", "n">>
L_ON == <<"O", "N">>
L_qc == <<"q", "c">>
U_1 == <<"u", "1">>
U_2 == <<"u", "2">>

\* the pairs _listings_similar is applied to: every combination of fields
PairUrls == {<<>>, U_1, U_2}
PairTitles == {<<>>, T_abcd, T_abcx, T_long1, T_long2}
PairPrices == {NoPrice, 0, 1000, 1040, 1200, 1255}
PairLocations == {<<>>, L_on, L_qc}
PairListings ==
  {Listing("kijiji", u, t, p, l) :
     u \in PairUrls, t \in PairTitles, p \in PairPrices, l \in PairLocations}

\* the listings sequences are drawn from for _deduplicate_listings
DedupListings ==
  { Listing("kijiji", U_1, T_abcd, 1000, L_on),
    Listing("realtor_ca", U_1, T_wxyz, 2000, L_qc),
    Listing("realtor_ca", U_2, T_abcd, 1000, L_on),
    Listing("rentals_ca", <<>>, T_abcd, 1040, L_on),
    Listing("kijiji", <<>>, T_Abcd_, 1040, L_ON),
    Listing("kijiji", <<>>, T_abcx, 1000, L_on),
    Listing("kijiji", <<>>, <<>>, NoPrice, L_on),
    Listing("kijiji", <<>>, T_abcd, NoPrice, <<>>),
    Listing("kijiji", <<>>, T_abcd, 0, L_on),
    Listing("kijiji", <<>>, T_aba, 1000, L_on),
    Listing("kijiji", <<>>, T_babba, 1000, L_on) }

SeqsUpTo(S, n) == UNION {[1..k -> S] : k \in 0..n}

NotRun == [done |-> FALSE]

(***************************************************************************)
(* The session of an adapter (BaseScraper._create_session): every          *)
(* session.get goes through an HTTPAdapter whose Retry allows max_retries  *)
(* retries in total, on a transport error or a status of status_forcelist. *)
(***************************************************************************)
max_retries == 3
status_forcelist == {429, 500, 502, 503, 504}

FetchIdle ==
  /\ retries = max_retries
  /\ attempts = 0
  /\ statuses = <<>>
  /\ fetch_out = NotRun

(***************************************************************************)
(* Pacing (BaseScraper._rate_limit).  Each task builds its own adapter     *)
(* instance, whose last_request_time starts at 0; sent_at and gap record   *)
(* when the source was last sent a request and how long after the one      *)
(* before, unpaced whether a request left without _rate_limit before it.   *)
(***************************************************************************)
delay == 1
MaxClock == 4      \* the clock stops here
StartClock == delay + 1
NoTime == -1       \* no request so far

PacedSources == {"realtor_ca", "rentals_ca"}

NoInstance ==
  [step |-> "none", last_request_time |-> 0, paced |-> FALSE,
   sent_at |-> NoTime, gap |-> NoTime, unpaced |-> FALSE]

PaceIdle ==
  /\ clock = StartClock
  /\ instances = [s \in PacedSources |-> NoInstance]

NoRaw == [id |-> <<>>]

\* listings_collection of a database that answers, without documents
EmptyCollection == [connected |-> TRUE, docs |-> {}]

\* no build_search_url or standardize_listing applied, an empty collection,
\* no upsert called
SideIdle ==
  /\ url_out = NotRun
  /\ raw_in = NoRaw
  /\ standardized = NotRun
  /\ store = EmptyCollection
  /\ upsert_out = NotRun

InstanceIdle == FetchIdle /\ PaceIdle /\ SideIdle

\* the adapter variables while no adapter function is being applied
AdapterIdle ==
  /\ min_price = NoPrice
  /\ max_price = NoPrice
  /\ filter_out = NotRun
  /\ adapter = "base"
  /\ env = [payload |-> <<>>]
  /\ search_out = NotRun

(***************************************************************************)
(* BaseScraper._extract_price.  A raw price is absent, a number, or a text.*)
(* Payloads of the model carry whole-dollar amounts, so the value of the   *)
(* match of \d+\.?\d* is its leading digit run.                            *)
(***************************************************************************)
RawNone == [kind |-> "none"]
RawNum(n) == [kind |-> "num", v |-> n]
RawStr(t) == [kind |-> "str", s |-> t]

IsDigit(c) == c \in {"0", "1", "2", "3", "4", "5", "6", "7", "8", "9"}

DigitVal(c) == CHOOSE d \in 0..9 : DigitChar(d) = c

RECURSIVE Remove(_, _)
\* str.replace(c, "") for each c of chars
Remove(t, chars) ==
  IF t = <<>> THEN <<>>
  ELSE IF Head(t) \in chars THEN Remove(Tail(t), chars)
  ELSE <<Head(t)>> \o Remove(Tail(t), chars)

RECURSIVE DropToDigit(_)
DropToDigit(t) == IF t = <<>> \/ IsDigit(Head(t)) THEN t ELSE DropToDigit(Tail(t))

RECURSIVE DigitRun(_, _)
\* value of the leading digit run of t, acc carrying the digits read so far
DigitRun(t, acc) ==
  IF t = <<>> \/ ~IsDigit(Head(t)) THEN acc
  ELSE DigitRun(Tail(t), acc * 10 + DigitVal(Head(t)))

\* _extract_price with 0 where the source returns None
ExtractPriceZero(price_value) ==
  IF price_value.kind = "none" THEN 0
  ELSE IF price_value.kind = "num" THEN price_value.v
  ELSE LET price_str == Strip(Remove(price_value.s, {"$", ","}))
           match == DropToDigit(price_str)
       IN  IF match = <<>> THEN 0 ELSE DigitRun(match, 0)

ExtractPrice(price_value) ==
  IF price_value.kind = "none" THEN NoPrice
  ELSE IF price_value.kind = "num" THEN price_value.v
  ELSE LET price_str == Strip(Remove(price_value.s, {"$", ","}))
           match == DropToDigit(price_str)
       IN  IF match = <<>> THEN NoPrice ELSE DigitRun(match, 0)

(***************************************************************************)
(* standardize_listing (BaseScraper; RentalsCAScraper overrides it and     *)
(* builds a title when the raw one is empty).  Raw listings of the model   *)
(* carry no bedrooms, so _build_title has the location part only.          *)
(***************************************************************************)
SourceName(a) == IF a = "base" THEN "kijiji" ELSE a

BuildTitle(raw_listing) ==
  IF TruthyText(raw_listing.location)
  THEN <<"i", "n", " ">> \o raw_listing.location
  ELSE <<"R", "e", "n", "t", "a", "l", " ", "P", "r", "o", "p", "e", "r", "t", "y">>

StandardizeListing(a, raw_listing) ==
  Listing(SourceName(a), raw_listing.url,
          IF a = "rentals_ca" /\ ~TruthyText(raw_listing.title)
          THEN BuildTitle(raw_listing) ELSE raw_listing.title,
          ExtractPrice(raw_listing.price), raw_listing.location)

RECURSIVE StandardizeAll(_, _)
StandardizeAll(a, raw_listings) ==
  IF raw_listings = <<>> THEN <<>>
  ELSE <<StandardizeListing(a, Head(raw_listings))>> \o StandardizeAll(a, Tail(raw_listings))

(***************************************************************************)
(* filter_results: the loop of lines 249-263                               *)
(***************************************************************************)
RECURSIVE FilterResultsKeepNone(_, _, _)
\* filter_results without the `if price is None: continue` of lines 253-254
FilterResultsKeepNone(listings, minp, maxp) ==
  IF listings = <<>> THEN <<>>
  ELSE LET price == Head(listings).price
           rest == FilterResultsKeepNone(Tail(listings), minp, maxp)
       IN  IF price # NoPrice /\ minp # NoPrice /\ price < minp THEN rest
           ELSE IF price # NoPrice /\ maxp # NoPrice /\ price > maxp THEN rest
           ELSE <<Head(listings)>> \o rest

RECURSIVE FilterResults(_, _, _)
FilterResults(listings, minp, maxp) ==
  IF listings = <<>> THEN <<>>
  ELSE LET price == Head(listings).price
           rest == FilterResults(Tail(listings), minp, maxp)
       IN  IF price = NoPrice THEN rest
           ELSE IF minp # NoPrice /\ price < minp THEN rest
           ELSE IF maxp # NoPrice /\ price > maxp THEN rest
           ELSE <<Head(listings)>> \o rest

(***************************************************************************)
(* The adapters' search().  env says what the outside world does:          *)
(*   build_url    exception raised while building the url ("" for none)    *)
(*   fetch        "ok", or the transport error session.get raises after    *)
(*                its retries                                              *)
(*   status       HTTP status of the response                              *)
(*   parse        exception raised by parse_listings on the payload        *)
(*   standardize  exception raised by standardize_listing on a raw listing *)
(*   selenium     exception raised by the browser automation               *)
(*   api          rentals.ca answers one of the guessed API endpoints      *)
(*   rendered     the listings are only in the JavaScript-rendered page    *)
(*   use_selenium the adapter's use_selenium configuration                 *)
(*   payload      the raw listings the source holds                        *)
(* A result is [raised, listings]; raised means the exception left search. *)
(***************************************************************************)
RequestExceptions == {"RequestException", "ConnectionError", "HTTPError"}
Exceptions ==
  RequestExceptions \cup {"ValueError", "AttributeError", "ImportError",
                          "WebDriverException", "RentalsCAScraperException"}

Returned(listings) == [raised |-> FALSE, listings |-> listings]
Escaped == [raised |-> TRUE, listings |-> <<>>]

\* what the try body of a search does: [exc, listings], exc = "" on success
Ok(listings) == [exc |-> "", listings |-> listings]
Raise(e) == [exc |-> e, listings |-> <<>>]

\* standardize every raw listing, then filter_results
StandardizeAndFilter(a, e, raw_listings, minp, maxp) ==
  IF raw_listings # <<>> /\ e.standardize # "" THEN Raise(e.standardize)
  ELSE Ok(FilterResults(StandardizeAll(a, raw_listings), minp, maxp))

\* parse_listings on the page fetched over HTTP
ParseFetched(e) ==
  IF e.parse # "" THEN Raise(e.parse)
  ELSE Ok(IF e.rendered THEN <<>> ELSE e.payload)

\* BaseScraper.search, lines 148-189 (the try body)
BaseSearchBody(e, minp, maxp) ==
  IF e.build_url # "" THEN Raise(e.build_url)
  ELSE IF e.fetch # "ok" THEN Raise(e.fetch)
  ELSE IF e.status >= 400 THEN Raise("HTTPError")
  ELSE LET raw == ParseFetched(e)
       IN  IF raw.exc # "" THEN raw
           ELSE StandardizeAndFilter("base", e, raw.listings, minp, maxp)

\* BaseScraper.search with only the `except requests.RequestException` clause
BaseSearchRequestOnly(e, minp, maxp) ==
  LET body == BaseSearchBody(e, minp, maxp)
  IN  IF body.exc = "" THEN Returned(body.listings)
      ELSE IF body.exc \in RequestExceptions THEN Returned(<<>>)
      ELSE Escaped

\* BaseScraper.search: both except clauses return []
BaseSearch(e, minp, maxp) ==
  LET body == BaseSearchBody(e, minp, maxp)
  IN  IF body.exc = "" THEN Returned(body.listings)
      ELSE IF body.exc \in RequestExceptions THEN Returned(<<>>)
      ELSE IF body.exc \in Exceptions THEN Returned(<<>>)
      ELSE Escaped

\* RealtorCAScraper._use_selenium_approach: every exception becomes []
RealtorUseSelenium(e) ==
  IF e.selenium # "" \/ e.parse # "" THEN <<>> ELSE e.payload

\* RealtorCAScraper._selenium_search_fallback
RealtorSeleniumFallback(e, minp, maxp) ==
  LET r == StandardizeAndFilter("realtor_ca", e, RealtorUseSelenium(e), minp, maxp)
  IN  IF r.exc = "" THEN r.listings ELSE <<>>

\* RealtorCAScraper.search, the try body of lines 522-595
RealtorSearchBody(e, minp, maxp) ==
  IF e.build_url # "" THEN Raise(e.build_url)
  ELSE IF e.fetch # "ok" THEN Raise(e.fetch)
  ELSE IF e.status = 403
  THEN Ok(IF e.use_selenium THEN RealtorSeleniumFallback(e, minp, maxp) ELSE <<>>)
  ELSE IF e.status >= 400 THEN Raise("HTTPError")
  ELSE LET parsed == ParseFetched(e)
       IN  IF parsed.exc # "" THEN parsed
           ELSE LET raw == IF parsed.listings = <<>> /\ e.use_selenium
                           THEN RealtorUseSelenium(e) ELSE parsed.listings
                IN  StandardizeAndFilter("realtor_ca", e, raw, minp, maxp)

RealtorSearch(e, minp, maxp) ==
  LET body == RealtorSearchBody(e, minp, maxp)
  IN  IF body.exc = "" THEN Returned(body.listings)
      ELSE IF body.exc \in Exceptions THEN Returned(<<>>)
      ELSE Escaped

\* _extract_from_api_response keeps the items that have a title or an id
RECURSIVE ExtractFromApiResponse(_)
ExtractFromApiResponse(items) ==
  IF items = <<>> THEN <<>>
  ELSE IF TruthyText(Head(items).title) \/ TruthyText(Head(items).id)
  THEN <<Head(items)>> \o ExtractFromApiResponse(Tail(items))
  ELSE ExtractFromApiResponse(Tail(items))

\* RentalsCAScraper._try_api_approach: any failure gives []
RentalsTryApi(e) ==
  IF e.build_url = "" /\ e.fetch = "ok" /\ e.status = 200 /\ e.api
  THEN ExtractFromApiResponse(e.payload) ELSE <<>>

\* RentalsCAScraper._use_selenium_approach: ImportError becomes
\* RentalsCAScraperException, every other exception is re-raised
RentalsUseSelenium(e) ==
  IF e.selenium = "ImportError" THEN Raise("RentalsCAScraperException")
  ELSE IF e.selenium # "" THEN Raise(e.selenium)
  ELSE IF e.parse # "" THEN Raise(e.parse)
  ELSE Ok(e.payload)

\* RentalsCAScraper.search, the try body of lines 332-379
RentalsSearchBody(e, minp, maxp) ==
  LET api == RentalsTryApi(e)
  IN  IF api # <<>> THEN StandardizeAndFilter("rentals_ca", e, api, minp, maxp)
      ELSE IF ~e.use_selenium THEN Ok(<<>>)
      ELSE IF e.build_url # "" THEN Raise(e.build_url)
      ELSE LET raw == RentalsUseSelenium(e)
           IN  IF raw.exc # "" THEN raw
               ELSE StandardizeAndFilter("rentals_ca", e, raw.listings, minp, maxp)

RentalsSearch(e, minp, maxp) ==
  LET body == RentalsSearchBody(e, minp, maxp)
  IN  IF body.exc = "" THEN Returned(body.listings)
      ELSE IF body.exc \in Exceptions THEN Returned(<<>>)
      ELSE Escaped

\* scraper.search(location, min_price, max_price) of adapter a
Search(a, e, minp, maxp) ==
  CASE a = "realtor_ca" -> RealtorSearch(e, minp, maxp)
    [] a = "rentals_ca" -> RentalsSearch(e, minp, maxp)
    [] OTHER -> BaseSearch(e, minp, maxp)

(***************************************************************************)
(* Raw listings and environments the adapters are run on.                  *)
(***************************************************************************)
RawListing(id, url, title, price, where) ==
  [id |-> id, url |-> url, title |-> title, price |-> price, location |-> where]

P_1000 == <<"$", "1", ",", "0", "0", "0">>
P_call == <<"c", "a", "l", "l">>

RawListings ==
  { RawListing(<<"1">>, U_1, T_abcd, RawStr(P_1000), L_on),
    RawListing(<<"2">>, <<>>, <<>>, RawNum(0), L_qc),
    RawListing(<<>>, <<>>, <<>>, RawStr(P_call), <<>>) }

Envs ==
  [ build_url : {"", "ValueError"},
    fetch : {"ok", "ConnectionError"},
    status : {200, 403, 500},
    parse : {"", "AttributeError"},
    standardize : {"", "AttributeError"},
    selenium : {"", "ImportError", "WebDriverException"},
    api : BOOLEAN,
    rendered : BOOLEAN,
    use_selenium : BOOLEAN,
    payload : SeqsUpTo(RawListings, MaxRaw) ]

Adapters == {"base", "realtor_ca", "rentals_ca"}

\* <<min_price, max_price>> of a search
PriceRanges == {<<NoPrice, NoPrice>>, <<1000, 1500>>}

NoEnv == [payload |-> <<>>]

(***************************************************************************)
(* ScraperManager.  Dicts keyed by adapter name (by_source, errors) are    *)
(* total functions on the registry whose value NoEntry / "" means that the *)
(* key is not in the dict.                                                 *)
(***************************************************************************)
AVAILABLE_SCRAPERS == <<"kijiji", "realtor_ca", "rentals_ca">>

Range(q) == {q[i] : i \in 1..Len(q)}

Registered == Range(AVAILABLE_SCRAPERS)

NoEntry == -1      \* by_source has no entry for the adapter

\* the adapter class registered under a key; KijijiScraper is imported from
\* scrapers.kijiji_scraper and used as a BaseScraper by test_scrapers.py
AdapterOf(scraper_name) == IF scraper_name = "kijiji" THEN "base" ELSE scraper_name

RECURSIVE ValidNames(_)
\* [name for name in enabled if name in self.AVAILABLE_SCRAPERS]
ValidNames(enabled) ==
  IF enabled = <<>> THEN <<>>
  ELSE IF Head(enabled) \in Registered
  THEN <<Head(enabled)>> \o ValidNames(Tail(enabled))
  ELSE ValidNames(Tail(enabled))

\* __init__ without the `if not self.enabled_scrapers` fallback of lines 60-62
EnabledScrapersNoFallback(config) ==
  ValidNames(IF config.has_enabled THEN config.enabled_scrapers
             ELSE AVAILABLE_SCRAPERS)

\* __init__, lines 51-62: config.get("enabled_scrapers", all), filtered
EnabledScrapers(config) ==
  LET enabled == IF config.has_enabled THEN config.enabled_scrapers
                 ELSE AVAILABLE_SCRAPERS
      valid == ValidNames(enabled)
  IN  IF valid = <<>> THEN AVAILABLE_SCRAPERS ELSE valid

\* __init__, lines 76-84, and reset_stats
ZeroStats ==
  [total_listings |-> 0, unique_listings |-> 0, duplicates_removed |-> 0,
   scrapers_succeeded |-> 0, scrapers_failed |-> 0]

EmptyBySource == [s \in Registered |-> NoEntry]
NoErrors == [s \in Registered |-> ""]

\* _run_scraper: the outcome dict.  fault: the adapter's constructor (or
\* anything else inside the try) raises
RunScraper(scraper_name, fault, e, minp, maxp) ==
  IF fault
  THEN [success |-> FALSE, listings |-> <<>>, error |-> "fault"]
  ELSE LET r == Search(AdapterOf(scraper_name), e, minp, maxp)
       IN  IF r.raised
           THEN [success |-> FALSE, listings |-> <<>>, error |-> "search raised"]
           ELSE [success |-> TRUE, listings |-> r.listings, error |-> ""]

\* the key of the final sort, x.get("price") or float("inf"), compared:
\* the key of a is greater than the key of x
KeyGreater(a, x) ==
  TruthyPrice(x.price) /\ (~TruthyPrice(a.price) \/ a.price > x.price)

RECURSIVE InsertByPrice(_, _)
\* insert x behind every element whose key is not greater (stable)
InsertByPrice(sorted, x) ==
  IF sorted = <<>> THEN <<x>>
  ELSE IF KeyGreater(Head(sorted), x) THEN <<x>> \o sorted
  ELSE <<Head(sorted)>> \o InsertByPrice(Tail(sorted), x)

RECURSIVE SortFrom(_, _)
SortFrom(sorted, rest) ==
  IF rest = <<>> THEN sorted
  ELSE SortFrom(InsertByPrice(sorted, Head(rest)), Tail(rest))

\* unique_listings.sort(key=lambda x: x.get("price") or float("inf"))
SortByPrice(listings) == SortFrom(<<>>, listings)

\* the orders a set of futures can be listed in
Orders(S) ==
  {q \in [1..Cardinality(S) -> S] : \A i, j \in 1..Cardinality(S) : q[i] = q[j] => i = j}

(***************************************************************************)
(* What the sources hold while the manager runs, and the configurations    *)
(* the manager is constructed with.                                        *)
(***************************************************************************)
U_3 == <<"u", "3">>

K_1 == RawListing(<<"1">>, U_1, T_abcd, RawStr(P_1000), L_on)
K_3 == RawListing(<<"3">>, <<>>, <<>>, RawNum(1200), L_qc)
R_1 == RawListing(<<"7">>, <<>>, T_abcd, RawNum(1040), L_on)
N_1 == RawListing(<<"9">>, U_3, T_abcx, RawNum(1200), L_on)
N_2 == RawListing(<<"8">>, <<>>, T_wxyz, RawStr(P_call), L_qc)
N_3 == RawListing(<<"6">>, U_2, T_wxyz, RawNum(0), L_qc)

Payloads(scraper_name) ==
  CASE scraper_name = "kijiji" -> {<<K_1>>, <<K_1, K_3>>}
    [] scraper_name = "realtor_ca" -> {<<R_1>>}
    [] scraper_name = "rentals_ca" -> {<<N_1, N_2, N_3>>}

OkEnv(payload) ==
  [build_url |-> "", fetch |-> "ok", status |-> 200, parse |-> "",
   standardize |-> "", selenium |-> "", api |-> TRUE, rendered |-> FALSE,
   use_selenium |-> FALSE, payload |-> payload]

FetchFails(e) == e.fetch # "ok" \/ e.status >= 400

\* the adapters whose source is down at times, and the adapters whose
\* construction fails at times
FetchFailing == {"realtor_ca", "rentals_ca"}
Faulting == {"kijiji"}

ManagerEnvs(scraper_name) ==
  {OkEnv(p) : p \in Payloads(scraper_name)}
    \cup (IF scraper_name \in FetchFailing
          THEN {[OkEnv(p) EXCEPT !.fetch = "ConnectionError"] : p \in Payloads(scraper_name)}
          ELSE {})

Configs ==
  { [has_enabled |-> FALSE, enabled_scrapers |-> <<>>, max_workers |-> 2] }

\* ScraperManager() and ScraperManager({})
DefaultConfig == [has_enabled |-> FALSE, enabled_scrapers |-> <<>>, max_workers |-> 3]

\* <<min_price, max_price>> of the search_all calls
ManagerRanges == {<<NoPrice, NoPrice>>}

NoTasks == [s \in Registered |-> [state |-> "none"]]

\* the manager variables while no manager method is being run
ManagerOwnIdle ==
  /\ enabled_scrapers = AVAILABLE_SCRAPERS
  /\ max_workers = 3
  /\ stats = ZeroStats
  /\ by_source = EmptyBySource
  /\ pc = "idle"
  /\ calls = 0
  /\ task = NoTasks
  /\ all_listings = <<>>
  /\ errors = NoErrors
  /\ finished = <<>>
  /\ pending = {}
  /\ waiter = <<>>
  /\ expired = FALSE
  /\ raised_exc = ""
  /\ response = NotRun
  /\ location = L_on
  /\ self_config = DefaultConfig

ManagerIdle == ManagerOwnIdle /\ InstanceIdle

(***************************************************************************)
(* SpecDedup: _deduplicate_listings applied to a sequence and to the       *)
(* sequence concatenated with itself.                                      *)
(***************************************************************************)
InitDedup ==
  /\ listings_in \in SeqsUpTo(DedupListings, MaxLen)
  /\ unique_out = NotRun
  /\ self_union_out = NotRun
  /\ similar_out = NotRun
  /\ AdapterIdle
  /\ ManagerIdle

ApplyDedup ==
  /\ ~unique_out.done
  /\ unique_out' = [done |-> TRUE] @@ DeduplicateListings(listings_in)
  /\ UNCHANGED <<listings_in, self_union_out, similar_out, adapterVars, managerVars>>

ApplyDedupSelfUnion ==
  /\ ~self_union_out.done
  /\ self_union_out' = [done |-> TRUE] @@ DeduplicateListings(listings_in \o listings_in)
  /\ UNCHANGED <<listings_in, unique_out, similar_out, adapterVars, managerVars>>

NextDedup == ApplyDedup \/ ApplyDedupSelfUnion

SpecDedup == InitDedup /\ [][NextDedup]_vars

(***************************************************************************)
(* SpecPair: _listings_similar and _deduplicate_listings applied to two    *)
(* listings.                                                               *)
(***************************************************************************)
InitPair ==
  /\ listings_in \in [1..2 -> PairListings]
  /\ unique_out = NotRun
  /\ self_union_out = NotRun
  /\ similar_out = NotRun
  /\ AdapterIdle
  /\ ManagerIdle

ApplyPair ==
  /\ ~similar_out.done
  /\ similar_out' = [done |-> TRUE] @@ ListingsSimilar(listings_in[1], listings_in[2])
  /\ unique_out' = [done |-> TRUE] @@ DeduplicateListings(listings_in)
  /\ UNCHANGED <<listings_in, self_union_out, adapterVars, managerVars>>

NextPair == ApplyPair

SpecPair == InitPair /\ [][NextPair]_vars

(***************************************************************************)
(* SpecAdapter: one search() of one adapter in one environment.            *)
(***************************************************************************)
InitAdapter ==
  /\ adapter \in Adapters
  /\ env \in Envs
  /\ \E range \in PriceRanges : min_price = range[1] /\ max_price = range[2]
  /\ search_out = NotRun
  /\ filter_out = NotRun
  /\ listings_in = <<>>
  /\ unique_out = NotRun
  /\ self_union_out = NotRun
  /\ similar_out = NotRun
  /\ ManagerIdle

ApplySearch ==
  /\ ~search_out.done
  /\ search_out' = [done |-> TRUE] @@ Search(adapter, env, min_price, max_price)
  /\ UNCHANGED <<dedupVars, min_price, max_price, filter_out, adapter, env, managerVars>>

NextAdapter == ApplySearch

SpecAdapter == InitAdapter /\ [][NextAdapter]_vars

(***************************************************************************)
(* SpecFilter: filter_results applied to canonical listings.               *)
(***************************************************************************)
FilterPrices == {NoPrice, 0, 999, 1000, 1500, 1501}
FilterListings ==
  {Listing("kijiji", U_1, T_abcd, p, L_on) : p \in FilterPrices}
    \cup {Listing("realtor_ca", <<>>, <<>>, p, <<>>) : p \in {NoPrice, 1000}}
FilterBounds == {NoPrice, 0, 1000, 1500}

InitFilter ==
  /\ listings_in \in SeqsUpTo(FilterListings, MaxLen)
  /\ min_price \in FilterBounds
  /\ max_price \in FilterBounds
  /\ filter_out = NotRun
  /\ adapter = "base"
  /\ env = NoEnv
  /\ search_out = NotRun
  /\ unique_out = NotRun
  /\ self_union_out = NotRun
  /\ similar_out = NotRun
  /\ ManagerIdle

ApplyFilterResults ==
  /\ ~filter_out.done
  /\ filter_out' = [done |-> TRUE,
                    listings |-> FilterResults(listings_in, min_price, max_price)]
  /\ UNCHANGED <<dedupVars, min_price, max_price, adapter, env, search_out, managerVars>>

NextFilter == ApplyFilterResults

SpecFilter == InitFilter /\ [][NextFilter]_vars

(***************************************************************************)
(* Spec: a ScraperManager and successive search_all calls on it.           *)
(***************************************************************************)
Enabled == Range(enabled_scrapers)

\* the state after ScraperManager(config), whose callers search for loc
Constructed(config, loc) ==
  /\ enabled_scrapers = EnabledScrapers(config)
  /\ max_workers = config.max_workers
  /\ self_config = config
  /\ location = loc
  /\ stats = ZeroStats
  /\ by_source = EmptyBySource
  /\ pc = "idle"
  /\ calls = 0
  /\ task = NoTasks
  /\ all_listings = <<>>
  /\ errors = NoErrors
  /\ finished = <<>>
  /\ pending = {}
  /\ waiter = <<>>
  /\ expired = FALSE
  /\ raised_exc = ""
  /\ response = NotRun
  /\ min_price = NoPrice
  /\ max_price = NoPrice
  /\ filter_out = NotRun
  /\ adapter = "base"
  /\ env = NoEnv
  /\ search_out = NotRun
  /\ listings_in = <<>>
  /\ unique_out = NotRun
  /\ self_union_out = NotRun
  /\ similar_out = NotRun
  /\ InstanceIdle

Init == \E config \in Configs : Constructed(config, L_on)

others ==
  <<dedupVars, filter_out, adapter, env, search_out, instanceVars, self_config>>

Running == {s \in Enabled : task[s].state = "running"}
Done == {s \in Enabled : task[s].state = "done"}

\* search_all, lines 108-134: fresh containers, one task submitted per
\* enabled adapter; self.stats is not touched.  Of the result of the call
\* before, the caller keeps the stats only (response.stats, by_source)
CallSearchAll ==
  /\ pc \in {"idle", "returned", "raised"}
  /\ calls < MaxCalls
  /\ \E range \in ManagerRanges : min_price' = range[1] /\ max_price' = range[2]
  /\ calls' = calls + 1
  /\ all_listings' = <<>>
  /\ errors' = NoErrors
  /\ task' = [s \in Registered |->
                IF s \in Enabled THEN [state |-> "queued", starts |-> 0]
                ELSE [state |-> "none"]]
  /\ finished' = <<>>
  /\ pending' = {}
  /\ waiter' = <<>>
  /\ expired' = FALSE
  /\ raised_exc' = ""
  /\ pc' = "submitted"
  /\ response' = IF response.done
                 THEN [response EXCEPT !.listings = <<>>, !.errors = NoErrors]
                 ELSE response
  /\ UNCHANGED <<enabled_scrapers, max_workers, stats, by_source, location, others>>

\* a pool that starts a thread for every submitted task, whatever max_workers
StartTaskNoCeiling ==
  /\ pc \in {"submitted", "collecting", "waiting", "shutdown"}
  /\ \E i \in 1..Len(enabled_scrapers) :
       /\ task[enabled_scrapers[i]].state = "queued"
       /\ \A j \in 1..(i - 1) : task[enabled_scrapers[j]].state # "queued"
       /\ task' = [task EXCEPT ![enabled_scrapers[i]] =
                     [state |-> "running", starts |-> @.starts + 1]]
  /\ UNCHANGED <<enabled_scrapers, max_workers, stats, by_source, pc, calls,
                 all_listings, errors, finished, pending, waiter, expired,
                 raised_exc, response, min_price, max_price, location, others>>

\* a worker thread of the pool takes the next work item from the queue
StartTask ==
  /\ pc \in {"submitted", "collecting", "waiting", "shutdown"}
  /\ Cardinality(Running) < max_workers
  /\ \E i \in 1..Len(enabled_scrapers) :
       /\ task[enabled_scrapers[i]].state = "queued"
       /\ \A j \in 1..(i - 1) : task[enabled_scrapers[j]].state # "queued"
       /\ task' = [task EXCEPT ![enabled_scrapers[i]] =
                     [state |-> "running", starts |-> @.starts + 1]]
  /\ UNCHANGED <<enabled_scrapers, max_workers, stats, by_source, pc, calls,
                 all_listings, errors, finished, pending, waiter, expired,
                 raised_exc, response, min_price, max_price, location, others>>

\* FinishTask of a worker that appends its listings to the shared list itself
FinishTaskWritesShared ==
  /\ \E s \in Running, fault \in BOOLEAN :
       \E e \in ManagerEnvs(s) :
         /\ fault => s \in Faulting
         /\ \E result \in {RunScraper(s, fault, e, min_price, max_price)} :
              /\ task' = [task EXCEPT ![s] =
                           [state |-> "done", starts |-> @.starts, folds |-> 0,
                            how |-> IF fault THEN "fault"
                                    ELSE IF FetchFails(e) THEN "fetch" ELSE "ok",
                            result |-> [result EXCEPT !.listings = <<>>]]]
              /\ all_listings' = all_listings \o result.listings
         /\ waiter' = IF s \in pending /\ pc # "shutdown"
                      THEN Append(waiter, s) ELSE waiter
  /\ UNCHANGED <<enabled_scrapers, max_workers, stats, by_source, pc, calls,
                 errors, finished, pending, expired, raised_exc,
                 response, min_price, max_price, location, others>>

\* FinishTask of a dispatcher that submits a failed adapter a second time
FinishTaskRetry ==
  /\ \E s \in Running, fault \in BOOLEAN :
       \E e \in ManagerEnvs(s) :
         /\ fault => s \in Faulting
         /\ \E result \in {RunScraper(s, fault, e, min_price, max_price)} :
              IF ~result.success /\ task[s].starts < 2
              THEN /\ task' = [task EXCEPT ![s] =
                                [state |-> "queued", starts |-> @.starts]]
                   /\ waiter' = waiter
              ELSE /\ task' = [task EXCEPT ![s] =
                                [state |-> "done", starts |-> @.starts, folds |-> 0,
                                 how |-> IF fault THEN "fault"
                                         ELSE IF FetchFails(e) THEN "fetch" ELSE "ok",
                                 result |-> result]]
                   /\ waiter' = IF s \in pending /\ pc # "shutdown"
                                THEN Append(waiter, s) ELSE waiter
  /\ UNCHANGED <<enabled_scrapers, max_workers, stats, by_source, pc, calls,
                 all_listings, errors, finished, pending, expired, raised_exc,
                 response, min_price, max_price, location, others>>

\* _run_scraper returns in its worker thread; the future is set, and the
\* waiter as_completed installed (and removes when it raises) is told
FinishTask ==
  /\ \E s \in Running, fault \in BOOLEAN :
       \E e \in ManagerEnvs(s) :
         /\ fault => s \in Faulting
         /\ task' = [task EXCEPT ![s] =
                       [state |-> "done", starts |-> @.starts, folds |-> 0,
                        how |-> IF fault THEN "fault"
                                ELSE IF FetchFails(e) THEN "fetch" ELSE "ok",
                        result |-> RunScraper(s, fault, e, min_price, max_price)]]
         /\ waiter' = IF s \in pending /\ pc # "shutdown"
                      THEN Append(waiter, s) ELSE waiter
  /\ UNCHANGED <<enabled_scrapers, max_workers, stats, by_source, pc, calls,
                 all_listings, errors, finished, pending, expired, raised_exc,
                 response, min_price, max_price, location, others>>

\* as_completed(future_to_scraper, timeout=self.timeout) starts: the futures
\* already done are listed (a set, so in any order), the rest get the waiter
EnterAsCompleted ==
  /\ pc = "submitted"
  /\ \E order \in Orders(Done) : finished' = order
  /\ pending' = Enabled \ Done
  /\ pc' = "collecting"
  /\ UNCHANGED <<enabled_scrapers, max_workers, stats, by_source, calls, task,
                 all_listings, errors, waiter, expired, raised_exc, response,
                 min_price, max_price, location, others>>

\* the clock passes end_time
DeadlineExpires ==
  /\ pc \in {"collecting", "waiting"}
  /\ ~expired
  /\ expired' = TRUE
  /\ UNCHANGED <<enabled_scrapers, max_workers, stats, by_source, pc, calls,
                 task, all_listings, errors, finished, pending, waiter,
                 raised_exc, response, min_price, max_price, location, others>>

\* the body of the for loop, lines 138-160, on the next yielded future
FoldOutcome ==
  /\ pc = "collecting"
  /\ finished # <<>>
  /\ LET scraper_name == Head(finished)
         result == task[scraper_name].result
     IN  IF result.success
         THEN /\ all_listings' = all_listings \o result.listings
              /\ stats' = [stats EXCEPT !.scrapers_succeeded = @ + 1]
              /\ by_source' = [by_source EXCEPT ![scraper_name] = Len(result.listings)]
              /\ errors' = errors
         ELSE /\ stats' = [stats EXCEPT !.scrapers_failed = @ + 1]
              /\ errors' = [errors EXCEPT ![scraper_name] = result.error]
              /\ UNCHANGED <<all_listings, by_source>>
  /\ finished' = Tail(finished)
  /\ task' = [task EXCEPT ![Head(finished)].folds = @ + 1]
  /\ UNCHANGED <<enabled_scrapers, max_workers, pc, calls, pending, waiter,
                 expired, raised_exc, response, min_price, max_price, location, others>>

\* as_completed: nothing to yield, futures pending, deadline not passed:
\* waiter.event.wait(wait_timeout)
BeginWait ==
  /\ pc = "collecting"
  /\ finished = <<>> /\ pending # {}
  /\ ~expired
  /\ pc' = "waiting"
  /\ UNCHANGED <<enabled_scrapers, max_workers, stats, by_source, calls, task,
                 all_listings, errors, finished, pending, waiter, expired,
                 raised_exc, response, min_price, max_price, location, others>>

\* the wait ends, by a completion or by its timeout; the futures completed
\* meanwhile are taken over in completion order
EndWait ==
  /\ pc = "waiting"
  /\ waiter # <<>> \/ expired
  /\ finished' = waiter
  /\ pending' = pending \ Range(waiter)
  /\ waiter' = <<>>
  /\ pc' = "collecting"
  /\ UNCHANGED <<enabled_scrapers, max_workers, stats, by_source, calls, task,
                 all_listings, errors, expired, raised_exc, response,
                 min_price, max_price, location, others>>

\* as_completed: futures pending and wait_timeout < 0: TimeoutError is raised
\* in the for statement, outside the try of lines 140-165; it leaves the
\* with block, whose exit waits for every task (shutdown(wait=True))
TimeoutRaised ==
  /\ pc = "collecting"
  /\ finished = <<>> /\ pending # {}
  /\ expired
  /\ pc' = "shutdown"
  /\ raised_exc' = "TimeoutError"
  /\ UNCHANGED <<enabled_scrapers, max_workers, stats, by_source, calls, task,
                 all_listings, errors, finished, pending, waiter, expired,
                 response, min_price, max_price, location, others>>

\* every task has ended: the exception leaves search_all
ShutdownDone ==
  /\ pc = "shutdown"
  /\ Done = Enabled
  /\ pc' = "raised"
  /\ UNCHANGED <<enabled_scrapers, max_workers, stats, by_source, calls, task,
                 all_listings, errors, finished, pending, waiter, expired,
                 raised_exc, response, min_price, max_price, location, others>>

\* lines 171-183: deduplicate is left at its default True
Deduplicated(listings) ==
  IF Len(listings) > 1 THEN DeduplicateListings(listings)
  ELSE [raised |-> FALSE, listings |-> listings]

\* the statistics with line 175 (duplicates_removed) left out
StatsAfterStaleDuplicates(old_stats, listings, unique_listings) ==
  [old_stats EXCEPT
     !.total_listings = Len(listings),
     !.unique_listings = Len(unique_listings)]

\* lines 168-186: the statistics of the call written into self.stats
StatsAfter(old_stats, listings, unique_listings) ==
  [old_stats EXCEPT
     !.total_listings = Len(listings),
     !.unique_listings = Len(unique_listings),
     !.duplicates_removed = Len(listings) - Len(unique_listings)]

\* lines 167-210 once every future was yielded: statistics, deduplication,
\* sort, response; an exception of the deduplicator leaves search_all
Assemble ==
  /\ pc = "collecting"
  /\ finished = <<>> /\ pending = {}
  /\ \E deduped \in {Deduplicated(all_listings)} :
       IF deduped.raised
       THEN /\ stats' = [stats EXCEPT !.total_listings = Len(all_listings)]
            /\ raised_exc' = "UnboundLocalError"
            /\ pc' = "raised"
            /\ UNCHANGED response
       ELSE \E new_stats \in {StatsAfter(stats, all_listings, deduped.listings)} :
            /\ stats' = new_stats
            /\ response' = [done |-> TRUE,
                            listings |-> SortByPrice(deduped.listings),
                            stats |-> new_stats,
                            shares_by_source |-> TRUE,
                            by_source |-> by_source,
                            errors |-> errors]
            /\ pc' = "returned"
            /\ UNCHANGED raised_exc
  /\ UNCHANGED <<enabled_scrapers, max_workers, by_source, calls, task,
                 all_listings, errors, finished, pending, waiter, expired,
                 min_price, max_price, location, others>>

\* reset_stats: self.stats becomes a new dict with a new by_source; a response
\* returned earlier keeps the old by_source dict
ResetStats ==
  /\ pc \in {"idle", "returned", "raised"}
  /\ stats # ZeroStats \/ by_source # EmptyBySource
  /\ stats' = ZeroStats
  /\ by_source' = EmptyBySource
  /\ response' = IF response.done /\ response.shares_by_source
                 THEN [response EXCEPT !.shares_by_source = FALSE,
                                       !.by_source = by_source]
                 ELSE response
  /\ UNCHANGED <<enabled_scrapers, max_workers, pc, calls, task, all_listings,
                 errors, finished, pending, waiter, expired, raised_exc,
                 min_price, max_price, location, others>>

Next ==
  \/ CallSearchAll
  \/ StartTask
  \/ FinishTask
  \/ EnterAsCompleted
  \/ DeadlineExpires
  \/ FoldOutcome
  \/ BeginWait
  \/ EndWait
  \/ TimeoutRaised
  \/ ShutdownDone
  \/ Assemble
  \/ ResetStats

Spec == Init /\ [][Next]_vars

(***************************************************************************)
(* SpecLocation: search_all called with blank and with proper locations on *)
(* a manager configured with one known and one unknown adapter name.       *)
(***************************************************************************)
Locations == {<<>>, <<" ", " ">>, L_on}

LocationConfigs ==
  { [has_enabled |-> TRUE, enabled_scrapers |-> <<"realtor_ca", "craigslist">>,
     max_workers |-> 1] }

InitLocation ==
  \E config \in LocationConfigs, loc \in Locations : Constructed(config, loc)

SpecLocation == InitLocation /\ [][Next]_vars

(***************************************************************************)
(* SpecFetch: one session.get of an adapter, request by request.           *)
(***************************************************************************)
\* what a request can meet: a response with a status, or a transport error
TransportError == 0
FetchOutcomes == {TransportError, 200, 403, 404, 429, 500, 501, 503}

\* Retry.is_retry for a GET, and the transport errors urlopen retries
IsRetryAnyError(outcome) == outcome = TransportError \/ outcome >= 400

IsRetry(outcome) == outcome = TransportError \/ outcome \in status_forcelist

\* Retry.is_exhausted after Retry.increment
IsExhausted(total) == total < 0

\* one request of session.get and what urlopen does with its outcome: return
\* the response, retry, or give up (requests raises RetryError for a status,
\* ConnectionError for a transport error)
SendRequest ==
  /\ ~fetch_out.done
  /\ \E outcome \in FetchOutcomes :
       /\ attempts' = attempts + 1
       /\ statuses' = Append(statuses, outcome)
       /\ IF IsRetry(outcome)
          THEN /\ retries' = retries - 1
               /\ fetch_out' =
                    IF IsExhausted(retries - 1)
                    THEN [done |-> TRUE, status |-> outcome,
                          exc |-> IF outcome = TransportError
                                  THEN "ConnectionError" ELSE "RetryError"]
                    ELSE fetch_out
          ELSE /\ retries' = retries
               /\ fetch_out' = [done |-> TRUE, status |-> outcome, exc |-> ""]
  /\ UNCHANGED <<dedupVars, adapterVars, managerOwn, paceVars, sideVars>>

InitFetch ==
  /\ listings_in = <<>>
  /\ unique_out = NotRun
  /\ self_union_out = NotRun
  /\ similar_out = NotRun
  /\ AdapterIdle
  /\ ManagerIdle

NextFetch == SendRequest

SpecFetch == InitFetch /\ [][NextFetch]_vars

(***************************************************************************)
(* SpecPacing: the requests two sources are sent by the tasks of           *)
(* successive search_all calls, against a clock.                           *)
(***************************************************************************)
Tick ==
  /\ clock < MaxClock
  /\ clock' = clock + 1
  /\ UNCHANGED <<dedupVars, adapterVars, managerOwn, sideVars, fetchVars, instances>>

\* _run_scraper: scraper = scraper_class(scraper_config), a new instance
\* for every task, with last_request_time = 0
NewScraper(s) ==
  /\ instances[s].step = "none"
  /\ instances' = [instances EXCEPT ![s].step = "created",
                                    ![s].last_request_time = 0,
                                    ![s].paced = FALSE]
  /\ UNCHANGED <<dedupVars, adapterVars, managerOwn, sideVars, fetchVars, clock>>

\* _rate_limit in search of BaseScraper and RealtorCAScraper: it returns
\* once delay has passed since last_request_time (it sleeps until then)
RateLimit(s) ==
  /\ AdapterOf(s) \in {"base", "realtor_ca"}
  /\ instances[s].step = "created"
  /\ clock - instances[s].last_request_time >= delay
  /\ instances' = [instances EXCEPT ![s].step = "paced",
                                    ![s].last_request_time = clock,
                                    ![s].paced = TRUE]
  /\ UNCHANGED <<dedupVars, adapterVars, managerOwn, sideVars, fetchVars, clock>>

\* a request leaves for the source of s
Sent(instance, next_step) ==
  [instance EXCEPT
     !.step = next_step,
     !.paced = FALSE,
     !.unpaced = @ \/ ~instance.paced,
     !.sent_at = clock,
     !.gap = IF instance.sent_at = NoTime THEN NoTime ELSE clock - instance.sent_at]

\* self.session.get(url, ...) of search, after which search returns
Request(s) ==
  /\ instances[s].step = "paced"
  /\ instances' = [instances EXCEPT ![s] = Sent(@, "none")]
  /\ UNCHANGED <<dedupVars, adapterVars, managerOwn, sideVars, fetchVars, clock>>

\* RentalsCAScraper._try_api_approach: self.session.get on up to three
\* endpoints in turn; search returns after the one that answers with
\* listings, or after the third
ApiRequest(s) ==
  /\ AdapterOf(s) = "rentals_ca"
  /\ instances[s].step \in {"created", "api_2", "api_3"}
  /\ \E found \in BOOLEAN :
       instances' = [instances EXCEPT ![s] =
                       Sent(@, IF found \/ instances[s].step = "api_3" THEN "none"
                               ELSE IF instances[s].step = "created" THEN "api_2"
                               ELSE "api_3")]
  /\ UNCHANGED <<dedupVars, adapterVars, managerOwn, sideVars, fetchVars, clock>>

NextPacing ==
  \/ Tick
  \/ \E s \in PacedSources : NewScraper(s)
  \/ \E s \in PacedSources : RateLimit(s)
  \/ \E s \in PacedSources : Request(s)
  \/ \E s \in PacedSources : ApiRequest(s)

SpecPacing == InitFetch /\ [][NextPacing]_vars

(***************************************************************************)
(* SpecTarget: build_search_url of RealtorCAScraper and RentalsCAScraper   *)
(* applied to a location.  The city tables keep three of the source's      *)
(* entries, in the source's order; the coordinates of a city are           *)
(* represented by its key.                                                 *)
(***************************************************************************)
C_toronto == <<"t", "o", "r", "o", "n", "t", "o">>
C_london == <<"l", "o", "n", "d", "o", "n">>
C_king_city == <<"k", "i", "n", "g", " ", "c", "i", "t", "y">>
S_king_city == <<"k", "i", "n", "g", "-", "c", "i", "t", "y">>

\* the keys of CITY_COORDINATES and of CITY_SLUGS, in dict order
CityNames == <<C_toronto, C_london, C_king_city>>

CITY_COORDINATES == [city_name \in Range(CityNames) |-> city_name]

CITY_SLUGS ==
  [city_name \in Range(CityNames) |->
     IF city_name = C_king_city THEN S_king_city ELSE city_name]

\* needle in hay, for str
Contains(hay, needle) ==
  \E i \in 0..(Len(hay) - Len(needle)) :
    SubSeq(hay, i + 1, i + Len(needle)) = needle

\* str.replace(old, new) for single characters
RECURSIVE Replace(_, _, _)
Replace(t, old, new) ==
  IF t = <<>> THEN <<>>
  ELSE <<IF Head(t) = old THEN new ELSE Head(t)>> \o Replace(Tail(t), old, new)

NoCity == <<"?">>

\* the first city_name with `city_name in location_lower or location_lower
\* in city_name`, NoCity when the loop ends without one
RECURSIVE PartialMatch(_, _)
PartialMatch(city_names, location_lower) ==
  IF city_names = <<>> THEN NoCity
  ELSE IF \/ Contains(location_lower, Head(city_names))
          \/ Contains(Head(city_names), location_lower)
  THEN Head(city_names)
  ELSE PartialMatch(Tail(city_names), location_lower)

\* RealtorCAScraper._get_coordinates
GetCoordinates(where) ==
  LET location_lower == Strip(Lower(where))
  IN  IF location_lower \in DOMAIN CITY_COORDINATES
      THEN CITY_COORDINATES[location_lower]
      ELSE IF PartialMatch(CityNames, location_lower) # NoCity
      THEN CITY_COORDINATES[PartialMatch(CityNames, location_lower)]
      ELSE CITY_COORDINATES[C_toronto]

\* RentalsCAScraper._get_city_slug
GetCitySlug(where) ==
  LET location_lower == Strip(Lower(where))
  IN  IF location_lower \in DOMAIN CITY_SLUGS
      THEN CITY_SLUGS[location_lower]
      ELSE IF PartialMatch(CityNames, location_lower) # NoCity
      THEN CITY_SLUGS[PartialMatch(CityNames, location_lower)]
      ELSE Replace(location_lower, " ", "-")

\* build_search_url of adapter a: [exc, target], the target being what the
\* url is built around (the bounding box of a city, or a city slug)
BuildSearchUrl(a, where) ==
  IF a = "realtor_ca"
  THEN LET coords == GetCoordinates(where)
       IN  IF coords = NoCity THEN [exc |-> "ValueError", target |-> <<>>]
           ELSE [exc |-> "", target |-> coords]
  ELSE [exc |-> "", target |-> GetCitySlug(where)]

MaxLoc == 3
LocationChars == {"o", "N", "x", " "}

TargetLocations ==
  SeqsUpTo(LocationChars, MaxLoc)
    \cup {C_toronto, C_king_city, <<"x", " ", "x", " ", "x">>}

InitTarget ==
  /\ listings_in = <<>>
  /\ unique_out = NotRun
  /\ self_union_out = NotRun
  /\ similar_out = NotRun
  /\ min_price = NoPrice
  /\ max_price = NoPrice
  /\ filter_out = NotRun
  /\ adapter \in {"realtor_ca", "rentals_ca"}
  /\ env = [payload |-> <<>>]
  /\ search_out = NotRun
  /\ enabled_scrapers = AVAILABLE_SCRAPERS
  /\ max_workers = 3
  /\ stats = ZeroStats
  /\ by_source = EmptyBySource
  /\ pc = "idle"
  /\ calls = 0
  /\ task = NoTasks
  /\ all_listings = <<>>
  /\ errors = NoErrors
  /\ finished = <<>>
  /\ pending = {}
  /\ waiter = <<>>
  /\ expired = FALSE
  /\ raised_exc = ""
  /\ response = NotRun
  /\ location \in TargetLocations
  /\ self_config = DefaultConfig
  /\ InstanceIdle

ApplyBuildSearchUrl ==
  /\ ~url_out.done
  /\ url_out' = [done |-> TRUE] @@ BuildSearchUrl(adapter, location)
  /\ UNCHANGED <<dedupVars, adapterVars, managerOwn, fetchVars, paceVars,
                 raw_in, standardized, storeVars>>

NextTarget == ApplyBuildSearchUrl

SpecTarget == InitTarget /\ [][NextTarget]_vars

(***************************************************************************)
(* SpecStandardize: standardize_listing of an adapter applied to a raw     *)
(* listing while the clock runs.  The canonical listing carries, besides   *)
(* the fields the deduplicator reads, external_id and scraped_at.          *)
(***************************************************************************)
\* standardize_listing called when datetime.utcnow() is now
StandardizeListingAt(a, raw_listing, now) ==
  StandardizeListing(a, raw_listing)
    @@ [external_id |-> raw_listing.id, scraped_at |-> now]

P_zero == <<"$", "0">>
P_blank == <<" ">>

RawPrices ==
  {RawNone, RawNum(0), RawNum(1200), RawStr(P_1000), RawStr(P_call),
   RawStr(P_zero), RawStr(P_blank), RawStr(<<>>)}

StandardizeInputs ==
  { RawListing(id, U_1, title, price, L_on) :
      id \in {<<>>, <<"1">>}, title \in {<<>>, T_abcd}, price \in RawPrices }

InitStandardize ==
  /\ listings_in = <<>>
  /\ unique_out = NotRun
  /\ self_union_out = NotRun
  /\ similar_out = NotRun
  /\ min_price = NoPrice
  /\ max_price = NoPrice
  /\ filter_out = NotRun
  /\ adapter \in Adapters
  /\ env = [payload |-> <<>>]
  /\ search_out = NotRun
  /\ ManagerOwnIdle
  /\ FetchIdle
  /\ PaceIdle
  /\ url_out = NotRun
  /\ raw_in \in StandardizeInputs
  /\ standardized = NotRun
  /\ store = EmptyCollection
  /\ upsert_out = NotRun

ApplyStandardize ==
  /\ ~standardized.done
  /\ standardized' =
       [done |-> TRUE, listing |-> StandardizeListingAt(adapter, raw_in, clock)]
  /\ UNCHANGED <<dedupVars, adapterVars, managerOwn, fetchVars, paceVars,
                 url_out, raw_in, storeVars>>

NextStandardize == Tick \/ ApplyStandardize

SpecStandardize == InitStandardize /\ [][NextStandardize]_vars

(***************************************************************************)
(* SpecConfig: managers constructed one after the other, each with a       *)
(* configuration whose enabled_scrapers is absent or a list of up to       *)
(* MaxLen names, registered or not.                                        *)
(***************************************************************************)
ConfiguredNames == Registered \cup {"craigslist"}

AnyConfigs ==
  {DefaultConfig}
    \cup [has_enabled : {TRUE}, enabled_scrapers : SeqsUpTo(ConfiguredNames, MaxLen),
          max_workers : {1, 3}]

InitConfig == Constructed(DefaultConfig, L_on)

\* manager = ScraperManager(config): __init__ on a new object, which takes
\* the place of the manager constructed before
NewManager ==
  /\ pc = "idle"
  /\ \E config \in AnyConfigs :
       /\ self_config' = config
       /\ enabled_scrapers' = EnabledScrapers(config)
       /\ max_workers' = config.max_workers
  /\ stats' = ZeroStats
  /\ by_source' = EmptyBySource
  /\ UNCHANGED <<pc, calls, task, all_listings, errors, finished, pending, waiter,
                 expired, raised_exc, response, location, min_price, max_price,
                 dedupVars, filter_out, adapter, env, search_out, instanceVars>>

NextConfig == NewManager

SpecConfig == InitConfig /\ [][NextConfig]_vars

(***************************************************************************)
(* SpecStore: upsert_listing_document and bulk_upsert_listings called on   *)
(* the listings collection while the clock runs.  A document is the        *)
(* listing's fields (source, external_id and the price stand for them all) *)
(* with last_seen, status and first_seen.  connected is FALSE when the     *)
(* module could not reach the database (listings_collection is None).      *)
(***************************************************************************)
MaxBulk == 2

UpsertListings ==
  [source : {"kijiji", ""}, external_id : {<<"1">>, <<"2">>, <<>>},
   price : {1000, 1200}]

\* `not source or not external_id` is false
HasKey(listing_data) ==
  listing_data.source # "" /\ TruthyText(listing_data.external_id)

\* the documents the query {"source": ..., "external_id": ...} matches
Matching(docs, listing_data) ==
  {d \in docs : d.source = listing_data.source
                /\ d.external_id = listing_data.external_id}

\* update_one(query, {"$set": ..., "$setOnInsert": ...}, upsert=True) at time
\* now: the collections it can leave
UpdateOne(docs, listing_data, now) ==
  IF Matching(docs, listing_data) = {}
  THEN {docs \cup {[source |-> listing_data.source,
                    external_id |-> listing_data.external_id,
                    price |-> listing_data.price,
                    last_seen |-> now, status |-> "active",
                    first_seen |-> now]}}
  ELSE {(docs \ {d}) \cup {[d EXCEPT !.price = listing_data.price,
                                     !.last_seen = now,
                                     !.status = "active"]} :
          d \in Matching(docs, listing_data)}

\* the (source, external_id) pairs of the listings that have both
KeysOf(listings) ==
  {<<listings[i].source, listings[i].external_id>> :
     i \in {j \in 1..Len(listings) : HasKey(listings[j])}}

UpsertResult(fn, listings, value, exc) ==
  [done |-> TRUE, fn |-> fn, keyed |-> KeysOf(listings), value |-> value,
   exc |-> exc, at |-> clock]

UpsertListingDocument ==
  \E listing_data \in UpsertListings :
    IF ~store.connected \/ ~HasKey(listing_data)
    THEN /\ upsert_out' = UpsertResult("upsert_listing_document", <<listing_data>>, 0, "")
         /\ UNCHANGED <<dedupVars, adapterVars, managerOwn, fetchVars, paceVars,
                        url_out, raw_in, standardized, store>>
    ELSE /\ \E docs \in UpdateOne(store.docs, listing_data, clock) :
              store' = [store EXCEPT !.docs = docs]
         /\ upsert_out' = UpsertResult("upsert_listing_document", <<listing_data>>, 1, "")
         /\ UNCHANGED <<dedupVars, adapterVars, managerOwn, fetchVars, paceVars,
                        url_out, raw_in, standardized>>

\* bulk_upsert_listings: the loop reaches pymongo.UpdateOne for the first
\* listing that has its key; pymongo is a local name of the function (it is
\* imported further down, inside the try), not bound yet, so the call raises
\* UnboundLocalError before any operation is written
BulkUpsertListings ==
  \E listings \in SeqsUpTo(UpsertListings, MaxBulk) :
    /\ upsert_out' =
         IF store.connected /\ KeysOf(listings) # {}
         THEN UpsertResult("bulk_upsert_listings", listings, 0, "UnboundLocalError")
         ELSE UpsertResult("bulk_upsert_listings", listings, 0, "")
    /\ UNCHANGED <<dedupVars, adapterVars, managerOwn, fetchVars, paceVars,
                   url_out, raw_in, standardized, store>>

InitStore ==
  /\ listings_in = <<>>
  /\ unique_out = NotRun
  /\ self_union_out = NotRun
  /\ similar_out = NotRun
  /\ AdapterIdle
  /\ ManagerOwnIdle
  /\ FetchIdle
  /\ PaceIdle
  /\ url_out = NotRun
  /\ raw_in = NoRaw
  /\ standardized = NotRun
  /\ store \in {[EmptyCollection EXCEPT !.connected = c] : c \in BOOLEAN}
  /\ upsert_out = NotRun

NextStore == Tick \/ UpsertListingDocument \/ BulkUpsertListings

SpecStore == InitStore /\ [][NextStore]_vars

(***************************************************************************)
(* Claims about the deduplicator.                                          *)
(***************************************************************************)

\* C6: deduplicating L ++ L returns the same unique listings as
\* deduplicating L alone (and fails exactly when deduplicating L fails).
C6_SelfUnionIdempotent ==
  (unique_out.done /\ self_union_out.done) => self_union_out = unique_out

\* a sequence with a duplicate removed and two listings kept, run both ways
C6_Witness ==
  /\ unique_out.done /\ self_union_out.done
  /\ ~unique_out.raised
  /\ Len(unique_out.listings) >= 2
  /\ Len(unique_out.listings) < Len(listings_in)

BothUrls == TruthyText(listings_in[1].url) /\ TruthyText(listings_in[2].url)

\* C7: two listings that both have a non-empty url are duplicates iff the
\* urls are equal; with unequal urls _deduplicate_listings keeps both, with
\* equal urls it keeps the first only.
C7_UrlAuthority ==
  (similar_out.done /\ BothUrls) =>
     /\ ~similar_out.raised /\ ~unique_out.raised
     /\ similar_out.value <=> (listings_in[1].url = listings_in[2].url)
     /\ listings_in[1].url # listings_in[2].url => unique_out.listings = listings_in
     /\ listings_in[1].url = listings_in[2].url
           => unique_out.listings = <<listings_in[1]>>

\* unequal urls, everything else identical: both are kept
C7_Witness ==
  /\ similar_out.done /\ BothUrls
  /\ listings_in[1].url # listings_in[2].url
  /\ listings_in[1].title = listings_in[2].title /\ listings_in[1].title # <<>>
  /\ listings_in[1].price = listings_in[2].price /\ listings_in[1].price = 1000
  /\ listings_in[1].location = listings_in[2].location
  /\ Len(unique_out.listings) = 2

\* the tolerance of the price gate as specified: max(5% of the larger, 50),
\* in cents
SpecTolerance(price1, price2) == Max(Max(price1, price2) * PricePct, PriceCap * 100)

PriceDiff == Abs(listings_in[1].price - listings_in[2].price) * 100

TitleSimilarEnough ==
  LET title1 == Lower(listings_in[1].title)
      title2 == Lower(listings_in[2].title)
  IN  /\ title1 # <<>> /\ title2 # <<>>
      /\ RatioAtLeast(TextSimilarity(title1, title2), similarity_threshold)

\* C8: for two listings not both carrying a url and with both prices present,
\* a price difference above the tolerance means they are not duplicates, and
\* a difference within the tolerance with title similarity >= the threshold
\* means they are duplicates.
C8_PriceGate ==
  ( /\ similar_out.done /\ ~BothUrls
    /\ listings_in[1].price # NoPrice /\ listings_in[2].price # NoPrice ) =>
     LET tol == SpecTolerance(listings_in[1].price, listings_in[2].price)
     IN  /\ PriceDiff > tol => ~similar_out.value
         /\ (PriceDiff <= tol /\ TitleSimilarEnough)
               => (~similar_out.raised /\ similar_out.value)

(***************************************************************************)
(* Claims about the adapters.                                              *)
(***************************************************************************)

\* C5: search of the base adapter, of realtor_ca and of rentals_ca always
\* returns a (possibly empty) list; no exception leaves it, whichever step
\* fails.
C5_SearchNeverRaises ==
  search_out.done =>
     /\ ~search_out.raised
     /\ \A i \in 1..Len(search_out.listings) :
           search_out.listings[i].source = SourceName(adapter)

StepFails ==
  \/ env.build_url # ""
  \/ env.fetch # "ok"
  \/ env.status >= 400
  \/ env.parse # ""
  \/ env.standardize # ""
  \/ env.selenium # ""

\* the browser-automation fallback of rentals_ca fails and search returns []
C5_Witness ==
  /\ search_out.done
  /\ adapter = "rentals_ca" /\ env.use_selenium /\ ~env.api
  /\ env.build_url = "" /\ env.selenium = "ImportError"
  /\ env.payload # <<>>
  /\ search_out.listings = <<>>

InRange(listing) ==
  /\ listing.price # NoPrice
  /\ min_price = NoPrice \/ listing.price >= min_price
  /\ max_price = NoPrice \/ listing.price <= max_price

\* C10: filter_results returns, in input order, exactly the listings whose
\* price is present and within the inclusive [min_price, max_price], a missing
\* bound being unbounded; a listing with an absent price is never returned.
C10_FilterResults ==
  filter_out.done =>
     /\ filter_out.listings = SelectSeq(listings_in, InRange)
     /\ \A i \in 1..Len(filter_out.listings) : filter_out.listings[i].price # NoPrice

\* both bounds given; an absent price, the two bounds themselves and a price
\* above the range are in the input
C10_Witness ==
  /\ filter_out.done
  /\ min_price = 1000 /\ max_price = 1500
  /\ Len(listings_in) = 3
  /\ listings_in[1].price = NoPrice
  /\ listings_in[2].price = 1500
  /\ listings_in[3].price = 1000
  /\ Len(filter_out.listings) = 2

(***************************************************************************)
(* Claims about search_all.                                                *)
(***************************************************************************)
\* the search_all call has ended, by a return or by an exception
CallEnded == pc \in {"returned", "raised"}

\* the sources with an entry in the errors of the response
ErrorKeys == {s \in Registered : response.errors[s] # ""}

\* the adapters whose task had not finished when as_completed gave up
TimedOut == pending \ Range(waiter)

\* C1: when the deadline expires with an adapter task still running, the
\* call still returns an aggregate result: every adapter still running is in
\* errors as a Timeout failure, every adapter that completed keeps its
\* listings, and one outcome is accounted for each enabled adapter.
C1_TimeoutStillReturns ==
  (CallEnded /\ TimedOut # {}) =>
    /\ pc = "returned"
    /\ \A s \in TimedOut : response.errors[s] = "Timeout"
    /\ \A s \in Enabled \ TimedOut :
         task[s].result.success => by_source[s] = Len(task[s].result.listings)
    /\ response.stats.scrapers_succeeded + response.stats.scrapers_failed
         = Len(enabled_scrapers)

\* exactly one of three adapters failed in its fetch step, the two others
\* returned listings
OneFetchFailure(failing) ==
  /\ Len(enabled_scrapers) = 3
  /\ failing \in Enabled
  /\ task[failing].how = "fetch"
  /\ \A s \in Enabled \ {failing} :
       task[s].how = "ok" /\ task[s].result.listings # <<>>

\* C2: with three adapters of which exactly one fails in its fetch step,
\* the first search_all returns listings of the other two, errors has
\* exactly one entry, keyed by the failing source, and scrapers_failed is 1.
C2_PartialFailureIsolation ==
  \A failing \in Registered :
    (pc = "returned" /\ calls = 1 /\ OneFetchFailure(failing)) =>
      /\ response.listings # <<>>
      /\ ErrorKeys = {failing}
      /\ response.stats.scrapers_failed = 1

\* the adapters whose task faulted inside _run_scraper
Faulted == {s \in Enabled : task[s].state = "done" /\ task[s].how = "fault"}

\* C3: whichever adapters fault inside _run_scraper, search_all returns an
\* aggregate result instead of raising, and every faulting source is in
\* errors with its message.
C3_FaultsStillReturn ==
  (CallEnded /\ Faulted # {}) =>
    /\ pc = "returned"
    /\ \A s \in Faulted : response.errors[s] = "fault"

\* C4: the stats returned by every search_all call describe that call only:
\* scrapers_succeeded + scrapers_failed is the number of enabled adapters.
C4_StatsPerCall ==
  pc = "returned" =>
    response.stats.scrapers_succeeded + response.stats.scrapers_failed
      = Len(enabled_scrapers)

\* C9: the listings search_all returns are non-decreasing by price over the
\* listings that have a price, and every listing without a price comes after
\* all listings with one.
C9_SortedByPrice ==
  pc = "returned" =>
    \A i, j \in 1..Len(response.listings) :
      i < j =>
        LET price_i == response.listings[i].price
            price_j == response.listings[j].price
        IN  /\ (price_i # NoPrice /\ price_j # NoPrice) => price_i <= price_j
            /\ price_i = NoPrice => price_j = NoPrice

(***************************************************************************)
(* Claims about the statistics and the outcomes of search_all.             *)
(***************************************************************************)
RECURSIVE CollectedFrom(_)
\* the number of listings the successful adapters among names returned
CollectedFrom(names) ==
  IF names = <<>> THEN 0
  ELSE (IF task[Head(names)].result.success
        THEN Len(task[Head(names)].result.listings) ELSE 0)
       + CollectedFrom(Tail(names))

\* two adapters returned one listing each, which the similarity predicate
\* classifies as duplicates, and no other adapter returned a listing
TwoDuplicates ==
  \E s1, s2 \in Enabled :
    /\ s1 # s2
    /\ Len(task[s1].result.listings) = 1
    /\ Len(task[s2].result.listings) = 1
    /\ ListingsSimilar(task[s1].result.listings[1], task[s2].result.listings[1]).value
    /\ ListingsSimilar(task[s2].result.listings[1], task[s1].result.listings[1]).value
    /\ \A s \in Enabled \ {s1, s2} : task[s].result.listings = <<>>

\* C11: in every aggregate result total_listings is the number of listings
\* collected from the successful adapters, unique_listings the number of
\* listings returned, duplicates_removed their difference; two adapters
\* returning one listing each, duplicates of each other, yield one listing
\* and duplicates_removed = 1.
C11_StatsCounts ==
  pc = "returned" =>
    /\ response.stats.total_listings = CollectedFrom(enabled_scrapers)
    /\ response.stats.unique_listings = Len(response.listings)
    /\ response.stats.duplicates_removed
         = response.stats.total_listings - response.stats.unique_listings
    /\ TwoDuplicates =>
         (Len(response.listings) = 1 /\ response.stats.duplicates_removed = 1)

\* a returned call in which two adapters returned duplicates of each other
C11_Witness ==
  /\ pc = "returned"
  /\ TwoDuplicates
  /\ response.stats.total_listings = 2
  /\ response.stats.duplicates_removed = 1

RECURSIVE ListingsOf(_)
\* the listings of the successful adapters among names, in the order of names
ListingsOf(names) ==
  IF names = <<>> THEN <<>>
  ELSE (IF task[Head(names)].result.success
        THEN task[Head(names)].result.listings ELSE <<>>)
       \o ListingsOf(Tail(names))

\* C12: for fixed outputs of the adapters the result of search_all is the
\* same for every completion order: the listings kept, their order and
\* duplicates_removed are those of the run in which the adapters complete in
\* the order they are enabled in.
C12_OrderIndependent ==
  pc = "returned" =>
    LET in_order == Deduplicated(ListingsOf(enabled_scrapers))
    IN  /\ ~in_order.raised
        /\ response.listings = SortByPrice(in_order.listings)
        /\ response.stats.duplicates_removed
             = Len(ListingsOf(enabled_scrapers)) - Len(in_order.listings)

\* the adapters submitted to the pool and not yet taken by a worker
Queued == {s \in Enabled : task[s].state = "queued"}

\* C13: never more than max_workers adapter searches run at once; the
\* adapters beyond max_workers wait, a waiting adapter can start as soon as
\* a worker is free, and none is left waiting when the call ends.
C13_WorkerCeiling ==
  /\ Cardinality(Running) <= max_workers
  /\ (Queued # {} /\ Cardinality(Running) < max_workers) => ENABLED StartTask
  /\ CallEnded => Queued = {}

\* every worker is busy and an adapter waits
C13_Witness ==
  /\ Cardinality(Running) = max_workers
  /\ Queued # {}
  /\ Cardinality(Enabled) > max_workers

\* stats["by_source"] of the returned response: the copy of line 194 is
\* shallow, so until reset_stats it is the dict self.stats refers to
ResponseBySource ==
  IF response.shares_by_source THEN by_source ELSE response.by_source

\* C14: in every aggregate result, after any number of earlier calls, the
\* keys of stats.by_source are the adapters that succeeded in this call, the
\* keys of errors the adapters that failed in it, and the two key sets are
\* disjoint and together the enabled adapters.
C14_KeysPerCall ==
  pc = "returned" =>
    LET succeeded == {s \in Enabled : task[s].result.success}
        source_keys == {s \in Registered : ResponseBySource[s] # NoEntry}
    IN  /\ source_keys = succeeded
        /\ ErrorKeys = Enabled \ succeeded
        /\ source_keys \cap ErrorKeys = {}
        /\ source_keys \cup ErrorKeys = Enabled

\* the stats value a caller holds from the last returned response
ReturnedStats == [stats |-> response.stats, by_source |-> ResponseBySource]

\* C15: the stats of a returned result never change afterwards: every step
\* of a later search_all or reset_stats, short of the return of a new result,
\* leaves each field of the returned stats, by_source included, as it was.
C15_ReturnedStatsFrozen ==
  [][(response.done /\ ~(pc = "collecting" /\ pc' = "returned"))
       => ReturnedStats' = ReturnedStats]_vars

\* C16: search_all called with an empty or whitespace-only location reports
\* a top-level error for the argument and starts no adapter.
C16_BlankLocationRejected ==
  (Strip(location) = <<>> /\ calls > 0) =>
    /\ pc = "raised"
    /\ \A s \in Registered : task[s].state = "none"

Started(s) == IF task[s].state = "none" THEN 0 ELSE task[s].starts

Folded(s) == IF task[s].state = "done" THEN task[s].folds ELSE 0

RECURSIVE FoldedIn(_)
FoldedIn(names) ==
  IF names = <<>> THEN 0 ELSE Folded(Head(names)) + FoldedIn(Tail(names))

Outcomes == stats.scrapers_succeeded + stats.scrapers_failed

InCall == pc \notin {"idle", "returned", "raised"}

PriceCheckPasses == ~PriceTooDifferent(listings_in[1].price, listings_in[2].price)

BothPriced == listings_in[1].price # NoPrice /\ listings_in[2].price # NoPrice

BothPositive == listings_in[1].price > 0 /\ listings_in[2].price > 0

\* C18: for two listings not both carrying a url, with both prices present
\* the price check passes exactly when the absolute price difference is at
\* most max(5% of the larger price, 50); with a price absent it passes.
\* Stated on listings with alike titles, where the value _listings_similar
\* returns is the outcome of its price check, and for prices above 0 (a
\* price of 0 is the case of C8).
C18_PriceTolerance ==
  (similar_out.done /\ ~BothUrls /\ TitleSimilarEnough) =>
     /\ ~similar_out.raised
     /\ similar_out.value = PriceCheckPasses
     /\ BothPositive =>
          (similar_out.value <=>
             PriceDiff <= SpecTolerance(listings_in[1].price, listings_in[2].price))
     /\ ~BothPriced => similar_out.value

TitlesPresent == listings_in[1].title # <<>> /\ listings_in[2].title # <<>>

LocationsPresent == listings_in[1].location # <<>> /\ listings_in[2].location # <<>>

TitleRatio == TextSimilarity(Lower(listings_in[1].title), Lower(listings_in[2].title))

LocationRatio ==
  TextSimilarity(Lower(listings_in[1].location), Lower(listings_in[2].location))

\* C19: for two listings not decided by their urls, whose price check
\* passes, and which both have a title and a location, _listings_similar is
\* true iff title similarity >= similarity_threshold, or title similarity
\* >= 0.7 and location similarity >= similarity_threshold.
C19_TitleLocationRule ==
  (similar_out.done /\ ~BothUrls /\ PriceCheckPasses
     /\ TitlesPresent /\ LocationsPresent) =>
     /\ ~similar_out.raised
     /\ similar_out.value <=>
          \/ RatioAtLeast(TitleRatio, similarity_threshold)
          \/ /\ RatioAtLeast(TitleRatio, TitleFloor)
             /\ RatioAtLeast(LocationRatio, similarity_threshold)

\* titles 0.75 alike and the same location: duplicates by the location rule
C19_Witness ==
  /\ similar_out.done /\ ~BothUrls /\ PriceCheckPasses
  /\ TitlesPresent /\ LocationsPresent
  /\ ~RatioAtLeast(TitleRatio, similarity_threshold)
  /\ RatioAtLeast(TitleRatio, TitleFloor)
  /\ listings_in[1].location = listings_in[2].location
  /\ similar_out.value

\* C20: whichever titles and locations are absent on the two listings,
\* _listings_similar returns a boolean without raising, and so does
\* _deduplicate_listings on the two listings.
C20_AbsentFieldsSkipped ==
  similar_out.done =>
     /\ ~similar_out.raised /\ similar_out.value \in BOOLEAN
     /\ ~unique_out.raised

(***************************************************************************)
(* Claims about what _deduplicate_listings keeps and drops.                *)
(***************************************************************************)
SameSignature(listing1, listing2) ==
  CreateListingSignature(listing1) = CreateListingSignature(listing2)

DedupReturned == unique_out.done /\ ~unique_out.raised

\* C21: a listing whose signature equals the signature of an earlier listing
\* of the input is dropped, also when that earlier listing was dropped: it
\* is in the output only if an equal listing occurs earlier in the input.
C21_SeenSignatureDropped ==
  DedupReturned =>
    \A j \in 1..Len(listings_in) :
      (\E i \in 1..(j - 1) : SameSignature(listings_in[i], listings_in[j]))
        => \/ listings_in[j] \notin Range(unique_out.listings)
           \/ \E i \in 1..(j - 1) : listings_in[i] = listings_in[j]

\* listing1 is a duplicate of listing2: same signature, or similar
Duplicates(listing1, listing2) ==
  SameSignature(listing1, listing2) \/ ListingsSimilar(listing1, listing2).value

\* every listing of the input that is not retained matches, by signature or
\* by the predicate, a retained listing that precedes it in the input
DroppedMatchEarlier ==
  \A j \in 1..Len(listings_in) :
    \/ listings_in[j] \in Range(unique_out.listings)
    \/ \E i \in 1..(j - 1) :
         /\ listings_in[i] \in Range(unique_out.listings)
         /\ Duplicates(listings_in[j], listings_in[i])

\* C22: no two listings of the output share a signature or are duplicates
\* of each other under the similarity predicate (whichever of the two is
\* taken first), and every dropped listing matches a retained listing that
\* precedes it in the input.
C22_NoDuplicatesLeft ==
  DedupReturned =>
    /\ \A i, j \in 1..Len(unique_out.listings) :
         i # j => ~Duplicates(unique_out.listings[i], unique_out.listings[j])
    /\ DroppedMatchEarlier

RECURSIVE IsSubsequence(_, _)
IsSubsequence(s, t) ==
  IF s = <<>> THEN TRUE
  ELSE IF t = <<>> THEN FALSE
  ELSE IF Head(s) = Head(t) THEN IsSubsequence(Tail(s), Tail(t))
  ELSE IsSubsequence(s, Tail(t))

\* C23: the output is a subsequence of the input (same listings, unmodified,
\* in input order), it starts with the first listing of the input, and the
\* retained listing a dropped one matches occurs before it in the input.
C23_SubsequenceFirstKept ==
  DedupReturned =>
    /\ IsSubsequence(unique_out.listings, listings_in)
    /\ listings_in # <<>> =>
         (unique_out.listings # <<>> /\ Head(unique_out.listings) = Head(listings_in))
    /\ DroppedMatchEarlier

\* three different listings, the second a duplicate of the first and dropped
C23_Witness ==
  /\ DedupReturned
  /\ Len(listings_in) = 3
  /\ unique_out.listings = <<listings_in[1], listings_in[3]>>
  /\ listings_in[2] \notin Range(unique_out.listings)
  /\ listings_in[1] # listings_in[3]

(***************************************************************************)
(* Claims about the threads of search_all.                                 *)
(***************************************************************************)
\* what the for loop of search_all collects into
Shared == <<all_listings, errors, stats, by_source>>

\* a step of a worker thread: a task starts or ends
WorkerStep ==
  \E s \in Registered :
    /\ task'[s].state # task[s].state
    /\ task'[s].state \in {"running", "done"}

\* C24: within a call the listing sequence, the errors map and the counters
\* are written by the calling thread only (a step of a worker thread leaves
\* them alone: the task hands its outcome over in its future), and only
\* while it collects; deduplication and sorting begin only when every
\* adapter task has finished and its outcome was folded.
C24_SingleWriter ==
  /\ [][WorkerStep => UNCHANGED Shared]_vars
  /\ [][(InCall /\ Shared' # Shared) => (pc = "collecting" /\ ~WorkerStep)]_vars
  /\ [][(pc = "collecting" /\ pc' \in {"returned", "raised"}) =>
          /\ Done = Enabled
          /\ \A s \in Enabled : task[s].folds = 1]_vars

\* an outcome was folded while another adapter task is still running
C24_Witness ==
  /\ pc = "collecting"
  /\ Running # {}
  /\ all_listings # <<>>
  /\ \E s \in Enabled : Folded(s) = 1

(***************************************************************************)
(* Claims about the fetch step of an adapter.                              *)
(***************************************************************************)
\* every request but the last one met a transport error or a status the
\* session retries, all of them 429 or 5xx
RetriedOnlyTransient ==
  \A i \in 1..(Len(statuses) - 1) :
    \/ statuses[i] = TransportError
    \/ statuses[i] = 429
    \/ statuses[i] >= 500 /\ statuses[i] <= 599

\* a session.get whose retries were used up ends with an exception, which
\* search turns into a fetch failure
ExhaustedFails ==
  (fetch_out.done /\ IsRetry(fetch_out.status)) => fetch_out.exc # ""

\* C25: a fetch is retried only after a 429 or 5xx status or a transport
\* error, makes at most 3 attempts in total, and once they are used up ends
\* as a failure.
C25_ThreeAttempts ==
  /\ RetriedOnlyTransient
  /\ attempts <= 3
  /\ ExhaustedFails

\* C25 as amended: at most 4 attempts in total, the first request and
\* max_retries = 3 retries.
C25_BoundedRetry ==
  /\ RetriedOnlyTransient
  /\ attempts <= max_retries + 1
  /\ ExhaustedFails
  /\ fetch_out.done => attempts = Len(statuses)

\* four requests that all met a retried status: RetryError
C25_Witness ==
  /\ fetch_out.done
  /\ attempts = max_retries + 1
  /\ fetch_out.exc = "RetryError"
  /\ \A i \in 1..Len(statuses) : statuses[i] \in status_forcelist

\* C26: every request an adapter sends is preceded by its pacing step, and
\* two consecutive requests to one source, within a search and across
\* search_all calls, are at least delay apart.
C26_RequestsPaced ==
  \A s \in PacedSources :
    /\ ~instances[s].unpaced
    /\ instances[s].gap # NoTime => instances[s].gap >= delay

(***************************************************************************)
(* Claims about locations an adapter does not know.                        *)
(***************************************************************************)
\* the location matches a city of the adapter's table, exactly or partially
KnownCity(where) ==
  \/ Strip(Lower(where)) \in Range(CityNames)
  \/ PartialMatch(CityNames, Strip(Lower(where))) # NoCity

\* C27: when the location cannot be resolved to a city the adapter knows,
\* build_search_url fails with an invalid-location error (so that the
\* adapter's search returns an empty result).
C27_UnknownLocationFails ==
  (url_out.done /\ ~KnownCity(location)) => url_out.exc = "ValueError"

(***************************************************************************)
(* Claims about the canonical listing.                                     *)
(***************************************************************************)
\* the raw price is missing, or a text without a digit to parse
NoParsablePrice(price_value) ==
  \/ price_value.kind = "none"
  \/ /\ price_value.kind = "str"
     /\ \A i \in 1..Len(price_value.s) : ~IsDigit(price_value.s[i])

\* C28: standardize_listing maps a raw listing whose price is missing or
\* cannot be parsed to a canonical listing without a price (None, never 0),
\* and every canonical listing it returns has the adapter's name as source
\* and scraped_at set.
C28_MissingPriceAbsent ==
  standardized.done =>
    /\ NoParsablePrice(raw_in.price) =>
         (standardized.listing.price = NoPrice /\ standardized.listing.price # 0)
    /\ standardized.listing.source = SourceName(adapter)
    /\ standardized.listing.scraped_at # NoTime
    /\ standardized.listing.scraped_at \in StartClock..clock

C28_Witness ==
  /\ standardized.done
  /\ raw_in.price = RawStr(P_call)
  /\ adapter = "rentals_ca"
  /\ standardized.listing.price = NoPrice
  /\ standardized.listing.scraped_at > StartClock

(***************************************************************************)
(* Claims about the manager's configuration.                               *)
(***************************************************************************)
\* the names the configuration asks for
Configured ==
  IF self_config.has_enabled THEN self_config.enabled_scrapers
  ELSE AVAILABLE_SCRAPERS

IsRegistered(name) == name \in Registered

\* C29: after ScraperManager(config) the enabled adapters are a non-empty
\* list of registered keys only: the configured names that are registered,
\* in their order, or all registered adapters when none of them is (or none
\* is configured).
C29_EnabledRegistered ==
  (pc = "idle" /\ calls = 0) =>
    /\ enabled_scrapers # <<>>
    /\ \A i \in 1..Len(enabled_scrapers) : IsRegistered(enabled_scrapers[i])
    /\ enabled_scrapers =
         IF SelectSeq(Configured, IsRegistered) = <<>> THEN AVAILABLE_SCRAPERS
         ELSE SelectSeq(Configured, IsRegistered)

C29_Witness ==
  /\ pc = "idle" /\ calls = 0
  /\ self_config.has_enabled
  /\ self_config.enabled_scrapers = <<"craigslist", "rentals_ca", "craigslist">>
  /\ enabled_scrapers = <<"rentals_ca">>

(***************************************************************************)
(* Claims about the storage of listings.                                   *)
(***************************************************************************)
\* the stored documents of key k
Stored(docs, k) == {d \in docs : <<d.source, d.external_id>> = k}

\* an upsert function was called on a connected collection in this step
UpsertCalled ==
  store.connected /\ (upsert_out' # upsert_out \/ store' # store)

\* C30: upserting is idempotent on (source, external_id): after a listing
\* was upserted there is exactly one stored document of its key, whose
\* last_seen is the time of this upsert and whose first_seen is the time of
\* the first one; listings lacking source or external_id leave the store
\* unchanged.
C30_UpsertIdempotent ==
  [][UpsertCalled =>
       /\ \A k \in upsert_out'.keyed :
            /\ Cardinality(Stored(store'.docs, k)) = 1
            /\ \A d \in Stored(store'.docs, k) :
                 /\ d.last_seen = clock
                 /\ d.first_seen =
                      IF Stored(store.docs, k) = {} THEN clock
                      ELSE (CHOOSE b \in Stored(store.docs, k) : TRUE).first_seen
       /\ upsert_out'.keyed = {} => store' = store]_vars

====
